---- MODULE Spec2Model ----
(***************************************************************************)
(* A model of mdx-tailor (MDXTailor): getMDXData (document splitting, the  *)
(* dynamic zod schema, the unexpected-field check) and markdownToHTML (the *)
(* line parser with its listStack).                                        *)
(*                                                                         *)
(* Text is a sequence of one-character strings, so that split, trim, slice *)
(* and the regular expressions of the source are computed on characters.   *)
(***************************************************************************)
EXTENDS Integers, Sequences, FiniteSets, TLC

VARIABLES
    \* ---- getMDXData ----
    config,      \* the config handed to MDXTailor: [workDir, routes]
    content,     \* the text of the MDX file
    route,       \* the route name passed to getMDXData and getMetadata
    lines,       \* content.split("---")
    yamlParsed,  \* what YAML.parse(yamlContent) gave, when the call reached it
    steps,       \* the calls the function made, in order
    errLog,      \* the errors handed to logError, in order
    result,      \* what the call returned, or the error it threw
    pc,          \* "ready" before the call; after it "done" (getMDXData),
                 \* "routes" (getRoutes) or "metadata" (getMetadata)
    timeZone,    \* the local time zone of the process, which Date.parse
                 \* reads: its offset from UTC in seconds
    \* ---- markdownToHTML and markdownToJSX ----
    markdown,    \* the text handed to the parser
    mdLines,     \* its lines: markdown.split("\n")
    idx,         \* the number of lines the forEach has processed
    listStack,   \* the stack of open lists
    hpc,         \* "idle", "parsing", "parsingJSX", "returned"
    html,        \* markdownToHTML: the pieces appended to html, in order
    elements,    \* markdownToJSX: the elements pushed, in order
    listItemIndex \* markdownToJSX: the counter of the list item keys

mdxVars == <<config, content, route, lines, yamlParsed, steps, errLog, result, pc, timeZone>>
htmlVars == <<markdown, mdLines, idx, listStack, hpc, html, elements, listItemIndex>>
vars == <<mdxVars, htmlVars>>

(***************************************************************************)
(* Bounds of the model.                                                    *)
(***************************************************************************)
\* the longest metadata field list of a route
MaxFields == 2
\* the most lines of a markdown body
MaxLines == 4
\* the longest run of '#' of a heading line
MaxLevel == 4

(***************************************************************************)
(* Text helpers: String.prototype.indexOf / slice / split / trim.          *)
(***************************************************************************)
\* what String.prototype.trim removes: the WhiteSpace and LineTerminator
\* characters of ECMAScript.  A character outside ASCII, and the vertical tab,
\* is written as the name of its code point.
WhiteSpace ==
    {" ", "\t", "\n", "\r", "\f", "U+000B", "U+00A0", "U+FEFF", "U+2028", "U+2029",
     "U+1680", "U+2000", "U+2001", "U+2002", "U+2003", "U+2004", "U+2005", "U+2006",
     "U+2007", "U+2008", "U+2009", "U+200A", "U+202F", "U+205F", "U+3000"}
Digits == {"0", "1", "2", "3", "4", "5", "6", "7", "8", "9"}

\* t.slice(from) with a 0-based from, as in the source
Slice(t, from) == SubSeq(t, from + 1, Len(t))

\* whether sep occurs in t at the 1-based position i
MatchAt(t, sep, i) ==
    /\ i >= 1
    /\ i + Len(sep) - 1 <= Len(t)
    /\ \A j \in 1..Len(sep) : t[i + j - 1] = sep[j]

\* the first 1-based position >= from where sep occurs in t, 0 when there is none
IndexOf(t, sep, from) ==
    LET hits == {i \in from..Len(t) : MatchAt(t, sep, i)}
    IN  IF hits = {} THEN 0 ELSE CHOOSE i \in hits : \A j \in hits : i <= j

\* the scan of t.split(sep): i is the position looked at, start the position
\* where the piece being read begins; a separator found at i ends the piece
\* and the scan goes on after it
RECURSIVE SplitFrom(_, _, _, _)
SplitFrom(t, sep, i, start) ==
    IF i > Len(t) THEN <<SubSeq(t, start, Len(t))>>
    ELSE IF MatchAt(t, sep, i)
    THEN <<SubSeq(t, start, i - 1)>> \o SplitFrom(t, sep, i + Len(sep), i + Len(sep))
    ELSE SplitFrom(t, sep, i + 1, start)

\* t.split(sep) for a non-empty string separator
Split(t, sep) == SplitFrom(t, sep, 1, 1)

\* t without its leading, and without its trailing, characters of S
RECURSIVE StripStart(_, _)
StripStart(t, S) ==
    IF t # <<>> /\ t[1] \in S THEN StripStart(Tail(t), S) ELSE t

RECURSIVE StripEnd(_, _)
StripEnd(t, S) ==
    IF t # <<>> /\ t[Len(t)] \in S THEN StripEnd(SubSeq(t, 1, Len(t) - 1), S) ELSE t

TrimStart(t) == StripStart(t, WhiteSpace)
TrimEnd(t) == StripEnd(t, WhiteSpace)

\* t.trim()
Trim(t) == TrimEnd(TrimStart(t))

\* the value of a run of decimal digits
DigitValue(d) ==
    CASE d = "0" -> 0 [] d = "1" -> 1 [] d = "2" -> 2 [] d = "3" -> 3 [] d = "4" -> 4
      [] d = "5" -> 5 [] d = "6" -> 6 [] d = "7" -> 7 [] d = "8" -> 8 [] OTHER -> 9
RECURSIVE NumValue(_)
NumValue(ds) ==
    IF ds = <<>> THEN 0 ELSE 10 * NumValue(SubSeq(ds, 1, Len(ds) - 1)) + DigitValue(ds[Len(ds)])
IsDigits(t) == t # <<>> /\ \A i \in 1..Len(t) : t[i] \in Digits

\* the concatenation of a sequence of texts
RECURSIVE Concat(_)
Concat(ts) == IF ts = <<>> THEN <<>> ELSE Head(ts) \o Concat(Tail(ts))

\* ts.join(sep)
RECURSIVE Join(_, _)
Join(ts, sep) ==
    IF ts = <<>> THEN <<>>
    ELSE IF Len(ts) = 1 THEN ts[1]
    ELSE ts[1] \o sep \o Join(Tail(ts), sep)

Range(s) == {s[i] : i \in 1..Len(s)}

\* the sequences over S of length at most n
SeqUpTo(S, n) == UNION {[1..k -> S] : k \in 0..n}

(***************************************************************************)
(* JavaScript values, as YAML.parse produces them and zod checks them.  A  *)
(* value is [k, v]: k its shape, v its text (for a scalar: what String()   *)
(* gives), its elements (arrays) or its [key, val] entries in the order of *)
(* its own keys (objects).                                                 *)
(***************************************************************************)
T_null == <<"n", "u", "l", "l">>
T_Null == <<"N", "u", "l", "l">>
T_NULL == <<"N", "U", "L", "L">>
T_true == <<"t", "r", "u", "e">>
T_True == <<"T", "r", "u", "e">>
T_TRUE == <<"T", "R", "U", "E">>
T_false == <<"f", "a", "l", "s", "e">>
T_False == <<"F", "a", "l", "s", "e">>
T_FALSE == <<"F", "A", "L", "S", "E">>
T_Infinity == <<"I", "n", "f", "i", "n", "i", "t", "y">>
T_NaN == <<"N", "a", "N">>
T_inf == <<".", "i", "n", "f">>
T_Inf == <<".", "I", "n", "f">>
T_INF == <<".", "I", "N", "F">>
T_nan == <<".", "n", "a", "n">>
T_NAN == <<".", "N", "A", "N">>
T_proto == <<"_", "_", "p", "r", "o", "t", "o", "_", "_">>
T_NaN_ == <<".", "N", "a", "N">>

Null == [k |-> "null", v |-> <<>>]
UndefinedValue == [k |-> "undefined", v |-> <<>>]
Str(t) == [k |-> "str", v |-> t]
Num(t) == [k |-> "num", v |-> t]
NaN == [k |-> "nan", v |-> T_NaN]
Bool(t) == [k |-> "bool", v |-> t]
Arr(items) == [k |-> "arr", v |-> items]
Obj(entries) == [k |-> "map", v |-> entries]
Function(name) == [k |-> "function", v |-> name]

SetMin(S) == CHOOSE q \in S : \A r \in S : q <= r

\* 0.a < 0.b for two runs of digits; for runs of one length, a < b
RECURSIVE DigitsLess(_, _)
DigitsLess(a, b) ==
    IF b = <<>> THEN FALSE
    ELSE IF a = <<>> THEN \E i \in 1..Len(b) : b[i] # "0"
    ELSE IF a[1] = b[1] THEN DigitsLess(Tail(a), Tail(b))
    ELSE DigitValue(a[1]) < DigitValue(b[1])

\* the largest array index, 2^32 - 2
MaxArrayIndex == <<"4", "2", "9", "4", "9", "6", "7", "2", "9", "4">>

\* a property key that is an array index: the canonical text of an integer
\* in 0 .. 2^32 - 2
IsArrayIndex(key) ==
    /\ IsDigits(key)
    /\ (key[1] = "0" => Len(key) = 1)
    /\ (Len(key) < 10 \/ (Len(key) = 10 /\ ~DigitsLess(MaxArrayIndex, key)))

\* the numeric order of two array indices
IndexLess(a, b) == Len(a) < Len(b) \/ (Len(a) = Len(b) /\ DigitsLess(a, b))

\* Object.keys(o): the own keys, array indices first in ascending order, then
\* the other keys in the order of their creation; the entries are kept in
\* that order
Keys(entries) == [i \in 1..Len(entries) |-> entries[i].key]
\* Object.prototype.hasOwnProperty.call(o, key)
HasKey(entries, key) == \E i \in 1..Len(entries) : entries[i].key = key
\* o[key] for an own key
Get(entries, key) == entries[CHOOSE i \in 1..Len(entries) : entries[i].key = key].val

\* Object.defineProperty(o, key, {value: val, enumerable: true, ...}): an own
\* key keeps its place, a new array index goes among the array indices, any
\* other new key goes last
SetKey(entries, key, val) ==
    IF HasKey(entries, key)
    THEN [i \in 1..Len(entries) |->
             IF entries[i].key = key THEN [key |-> key, val |-> val] ELSE entries[i]]
    ELSE IF IsArrayIndex(key)
    THEN LET before == SelectSeq(entries,
                           LAMBDA e : IsArrayIndex(e.key) /\ IndexLess(e.key, key))
         IN  before \o <<[key |-> key, val |-> val]>>
                    \o SubSeq(entries, Len(before) + 1, Len(entries))
    ELSE Append(entries, [key |-> key, val |-> val])

\* o[key] = val for an object literal o and an object val: the key __proto__
\* is the accessor of Object.prototype, it replaces the prototype of o and
\* creates no own key
Assign(entries, key, val) ==
    IF key = T_proto THEN entries ELSE SetKey(entries, key, val)

\* the properties every object literal inherits from Object.prototype
PrototypeKeys ==
    {<<"c", "o", "n", "s", "t", "r", "u", "c", "t", "o", "r">>,
     <<"h", "a", "s", "O", "w", "n", "P", "r", "o", "p", "e", "r", "t", "y">>,
     <<"i", "s", "P", "r", "o", "t", "o", "t", "y", "p", "e", "O", "f">>,
     <<"p", "r", "o", "p", "e", "r", "t", "y", "I", "s", "E", "n", "u", "m", "e", "r", "a", "b", "l", "e">>,
     <<"t", "o", "L", "o", "c", "a", "l", "e", "S", "t", "r", "i", "n", "g">>,
     <<"t", "o", "S", "t", "r", "i", "n", "g">>,
     <<"v", "a", "l", "u", "e", "O", "f">>,
     <<"_", "_", "d", "e", "f", "i", "n", "e", "G", "e", "t", "t", "e", "r", "_", "_">>,
     <<"_", "_", "d", "e", "f", "i", "n", "e", "S", "e", "t", "t", "e", "r", "_", "_">>,
     <<"_", "_", "l", "o", "o", "k", "u", "p", "G", "e", "t", "t", "e", "r", "_", "_">>,
     <<"_", "_", "l", "o", "o", "k", "u", "p", "S", "e", "t", "t", "e", "r", "_", "_">>,
     <<"_", "_", "p", "r", "o", "t", "o", "_", "_">>}

\* key in o
In(entries, key) == HasKey(entries, key) \/ key \in PrototypeKeys

\* o[key]: the own property, else the inherited one (a function, and for
\* __proto__ the prototype object), else undefined
Lookup(entries, key) ==
    IF HasKey(entries, key) THEN Get(entries, key)
    ELSE IF key = T_proto THEN Obj(<<>>)
    ELSE IF key \in PrototypeKeys THEN Function(key)
    ELSE UndefinedValue

(***************************************************************************)
(* Number to string: String(x) for x = +-0.d1..dk * 10^n.                  *)
(***************************************************************************)
DigitChar(n) ==
    CASE n = 0 -> "0" [] n = 1 -> "1" [] n = 2 -> "2" [] n = 3 -> "3" [] n = 4 -> "4"
      [] n = 5 -> "5" [] n = 6 -> "6" [] n = 7 -> "7" [] n = 8 -> "8" [] OTHER -> "9"

RECURSIVE NatText(_)
NatText(n) == IF n < 10 THEN <<DigitChar(n)>> ELSE NatText(n \div 10) \o <<DigitChar(n % 10)>>

RECURSIVE Zeros(_)
Zeros(n) == IF n <= 0 THEN <<>> ELSE <<"0">> \o Zeros(n - 1)

\* Number::toString of the number with the significant digits `digits` (no
\* zero at either end) and the decimal exponent n, that is 0.d1..dk * 10^n.
\* It is given for zero and for the numbers of at most 15 significant digits
\* between 1e-307 and 1e308: a double holds these so that the shortest
\* digits that read back as the same double are the digits written.  A
\* number of more digits, or nearer the ends of the range of a double, is
\* rounded in binary and has no value here.
NumberToString(digits, n) ==
    LET k == Len(digits)
    IN  CASE k = 0 -> <<"0">>
          [] k \in 1..15 /\ n \in (-306)..308 ->
                IF k <= n /\ n <= 21 THEN digits \o Zeros(n - k)
                ELSE IF 0 < n /\ n <= 21 THEN SubSeq(digits, 1, n) \o <<".">> \o SubSeq(digits, n + 1, k)
                ELSE IF -6 < n /\ n <= 0 THEN <<"0", ".">> \o Zeros(-n) \o digits
                ELSE <<digits[1]>> \o (IF k > 1 THEN <<".">> \o Tail(digits) ELSE <<>>)
                         \o <<"e", IF n >= 1 THEN "+" ELSE "-">>
                         \o NatText(IF n >= 1 THEN n - 1 ELSE 1 - n)

\* String(x) for x = +-ip.fp * 10^exp, given by its sign and its digits
\* before and after the point
NumberText(negative, ip, fp, exp) ==
    LET all == ip \o fp
        tail == StripStart(all, {"0"})
        text == NumberToString(StripEnd(tail, {"0"}), Len(ip) - (Len(all) - Len(tail)) + exp)
    IN  IF negative /\ text # <<"0">> THEN <<"-">> \o text ELSE text

\* the decimal digits of N * m + carry, N given by its decimal digits
RECURSIVE MulAdd(_, _, _)
MulAdd(ds, m, carry) ==
    IF ds = <<>> THEN (IF carry = 0 THEN <<>> ELSE NatText(carry))
    ELSE MulAdd(SubSeq(ds, 1, Len(ds) - 1), m, (DigitValue(ds[Len(ds)]) * m + carry) \div 10)
             \o <<DigitChar((DigitValue(ds[Len(ds)]) * m + carry) % 10)>>

HexDigits == Digits \cup {"a", "b", "c", "d", "e", "f", "A", "B", "C", "D", "E", "F"}
OctDigits == {"0", "1", "2", "3", "4", "5", "6", "7"}
HexValue(d) ==
    CASE d \in Digits -> DigitValue(d)
      [] d \in {"a", "A"} -> 10 [] d \in {"b", "B"} -> 11 [] d \in {"c", "C"} -> 12
      [] d \in {"d", "D"} -> 13 [] d \in {"e", "E"} -> 14 [] OTHER -> 15

\* parseInt(t, radix) for a run of digits of the radix, as decimal digits
RECURSIVE RadixDigits(_, _)
RadixDigits(t, radix) ==
    IF t = <<>> THEN <<>>
    ELSE MulAdd(RadixDigits(SubSeq(t, 1, Len(t) - 1), radix), radix, HexValue(t[Len(t)]))

(***************************************************************************)
(* YAML.parse (package yaml, YAML 1.2 core schema), for the documents of   *)
(* this grammar: block mappings and block sequences nested by indentation  *)
(* with spaces, `- ` entries that hold a mapping, plain scalars on one or  *)
(* several lines, scalars in quotes without escapes, flow sequences and    *)
(* flow mappings on one line, comments.  See InGrammar for what is outside *)
(* it: there the operators have no value.                                  *)
(***************************************************************************)
YamlSpace == {" ", "\t"}
Quotes == {"\"", "'"}

YAMLThrows == [ok |-> FALSE, value |-> Null]
\* YAML.parse was not called
NotParsed == [ok |-> FALSE, value |-> UndefinedValue]
YamlNode(value) == [ok |-> TRUE, value |-> value]

Unsigned(t) == IF t # <<>> /\ t[1] \in {"-", "+"} THEN Tail(t) ELSE t
Negative(t) == t # <<>> /\ t[1] = "-"

\* /^[-+]?[0-9]+$/
IsIntText(t) == IsDigits(Unsigned(t))
\* /^0o[0-7]+$/
IsOctText(t) ==
    Len(t) >= 3 /\ t[1] = "0" /\ t[2] = "o" /\ \A i \in 3..Len(t) : t[i] \in OctDigits
\* /^0x[0-9a-fA-F]+$/
IsHexText(t) ==
    Len(t) >= 3 /\ t[1] = "0" /\ t[2] = "x" /\ \A i \in 3..Len(t) : t[i] \in HexDigits

\* the digits before and after the point of m
IntPart(m) == IF IndexOf(m, <<".">>, 1) = 0 THEN m ELSE SubSeq(m, 1, IndexOf(m, <<".">>, 1) - 1)
FracPart(m) == IF IndexOf(m, <<".">>, 1) = 0 THEN <<>> ELSE SubSeq(m, IndexOf(m, <<".">>, 1) + 1, Len(m))

\* \.[0-9]+ | [0-9]+\.[0-9]* and, where the point may be left out, [0-9]+
IsMantissa(m, pointNeeded) ==
    /\ \A i \in 1..Len(IntPart(m)) : IntPart(m)[i] \in Digits
    /\ \A i \in 1..Len(FracPart(m)) : FracPart(m)[i] \in Digits
    /\ IntPart(m) # <<>> \/ FracPart(m) # <<>>
    /\ pointNeeded => IndexOf(m, <<".">>, 1) # 0

\* the place of the exponent mark of t, 0 when it has none
ExpMark(t) ==
    IF \E q \in 1..Len(t) : t[q] \in {"e", "E"}
    THEN SetMin({q \in 1..Len(t) : t[q] \in {"e", "E"}}) ELSE 0

\* /^[-+]?(?:\.[0-9]+|[0-9]+\.[0-9]*)$/
IsFloatText(t) == IsMantissa(Unsigned(t), TRUE)
\* /^[-+]?(?:\.[0-9]+|[0-9]+(?:\.[0-9]*)?)[eE][-+]?[0-9]+$/
IsFloatExpText(t) ==
    /\ ExpMark(Unsigned(t)) # 0
    /\ IsMantissa(SubSeq(Unsigned(t), 1, ExpMark(Unsigned(t)) - 1), FALSE)
    /\ IsIntText(SubSeq(Unsigned(t), ExpMark(Unsigned(t)) + 1, Len(Unsigned(t))))

\* the value of the exponent digits, capped where the result is 0 or Infinity
ExponentOf(e) ==
    LET digits == StripStart(Unsigned(e), {"0"})
        size == IF Len(digits) > 4 THEN 10000 ELSE NumValue(digits)
    IN  IF Negative(e) THEN 0 - size ELSE size

\* parseFloat of a text with an exponent
ExpNumber(negative, m, e) == Num(NumberText(negative, IntPart(m), FracPart(m), ExponentOf(e)))

\* a plain scalar, by the tags of the core schema: null, bool, int (octal,
\* decimal, hexadecimal), float (.inf, .nan, with and without exponent), str
ResolvePlain(t) ==
    IF t \in {<<>>, <<"~">>, T_null, T_Null, T_NULL} THEN Null
    ELSE IF t \in {T_true, T_True, T_TRUE} THEN Bool(T_true)
    ELSE IF t \in {T_false, T_False, T_FALSE} THEN Bool(T_false)
    ELSE IF IsOctText(t) THEN Num(NumberText(FALSE, RadixDigits(SubSeq(t, 3, Len(t)), 8), <<>>, 0))
    ELSE IF IsIntText(t) THEN Num(NumberText(Negative(t), Unsigned(t), <<>>, 0))
    ELSE IF IsHexText(t) THEN Num(NumberText(FALSE, RadixDigits(SubSeq(t, 3, Len(t)), 16), <<>>, 0))
    ELSE IF Unsigned(t) \in {T_inf, T_Inf, T_INF}
    THEN Num(IF Negative(t) THEN <<"-">> \o T_Infinity ELSE T_Infinity)
    ELSE IF t \in {T_nan, T_NaN_, T_NAN} THEN NaN
    ELSE IF IsFloatExpText(t)
    THEN ExpNumber(Negative(t), SubSeq(Unsigned(t), 1, ExpMark(Unsigned(t)) - 1),
                   SubSeq(Unsigned(t), ExpMark(Unsigned(t)) + 1, Len(Unsigned(t))))
    ELSE IF IsFloatText(t)
    THEN Num(NumberText(Negative(t), IntPart(Unsigned(t)), FracPart(Unsigned(t)), 0))
    ELSE Str(t)

\* - followed by white space or by the end of the line
IsSeqEntry(t) == t # <<>> /\ t[1] = "-" /\ (Len(t) = 1 \/ t[2] \in YamlSpace)

FlowIndicators == {",", "[", "]", "{", "}"}

\* What the lexer and the composer make of the node that starts at a place
\* of a line: st is "ok", "throws" (YAML.parse throws whatever follows) or
\* "unclosed" (the line ends inside the node), kind is "plain", "quoted" or
\* "flow", value the value of the node, next the place after it.
Scanned(st, kind, value, next) == [st |-> st, kind |-> kind, value |-> value, next |-> next]

\* the first place from i on that holds no white space
SkipSpace(l, i) == SetMin({j \in i..(Len(l) + 1) : j > Len(l) \/ l[j] \notin YamlSpace})

\* a plain scalar stops before a ':' that white space follows (in a flow
\* collection a flow indicator too), before white space that a '#' follows,
\* and in a flow collection before a flow indicator
PlainStops(l, j, flow) ==
    \/ l[j] = ":" /\ (j = Len(l) \/ l[j + 1] \in YamlSpace \/ (flow /\ l[j + 1] \in FlowIndicators))
    \/ l[j] \in YamlSpace /\ j < Len(l) /\ l[j + 1] = "#"
    \/ flow /\ l[j] \in FlowIndicators
PlainEnd(l, i, flow) == SetMin({j \in i..(Len(l) + 1) : j > Len(l) \/ PlainStops(l, j, flow)})

\* a plain scalar starts with a character that is no indicator; '-', '?'
\* and ':' start one when the scalar goes on
IsPlainStart(l, i, flow) ==
    /\ l[i] \notin Quotes \cup FlowIndicators \cup YamlSpace
                 \cup {"#", "&", "*", "!", "|", ">", "%", "@", "U+0060"}
    /\ l[i] \in {"-", "?", ":"} =>
           /\ i < Len(l)
           /\ l[i + 1] \notin YamlSpace
           /\ flow => l[i + 1] \notin FlowIndicators

ScanPlain(l, i, flow) ==
    LET UpTo(end) ==
            Scanned("ok", "plain", ResolvePlain(StripEnd(SubSeq(l, i, end - 1), YamlSpace)), end)
    IN  UpTo(PlainEnd(l, i, flow))

\* "..." on one line, without escapes
ScanDouble(l, i) ==
    LET close == {j \in (i + 1)..Len(l) : l[j] = "\""}
    IN  CASE close = {} -> Scanned("unclosed", "quoted", Null, Len(l) + 1)
          [] close # {} /\ \A j \in (i + 1)..SetMin(close) : l[j] # "\\" ->
                Scanned("ok", "quoted", Str(SubSeq(l, i + 1, SetMin(close) - 1)), SetMin(close) + 1)

\* the place of the quote that closes '...' from j on, 0 when there is none;
\* '' is a quote of the text
RECURSIVE SingleClose(_, _)
SingleClose(l, j) ==
    IF j > Len(l) THEN 0
    ELSE IF l[j] # "'" THEN SingleClose(l, j + 1)
    ELSE IF j < Len(l) /\ l[j + 1] = "'" THEN SingleClose(l, j + 2)
    ELSE j
RECURSIVE SingleText(_)
SingleText(t) ==
    IF t = <<>> THEN <<>>
    ELSE IF t[1] = "'" THEN <<"'">> \o SingleText(SubSeq(t, 3, Len(t)))
    ELSE <<t[1]>> \o SingleText(Tail(t))
ScanSingle(l, i) ==
    LET ClosedAt(close) ==
            IF close = 0 THEN Scanned("unclosed", "quoted", Null, Len(l) + 1)
            ELSE Scanned("ok", "quoted", Str(SingleText(SubSeq(l, i + 1, close - 1))), close + 1)
    IN  ClosedAt(SingleClose(l, i + 1))

\* the object of the pairs: each key, as String(key) gives it, is defined in
\* the order of the document
RECURSIVE ObjectOf(_)
ObjectOf(pairs) ==
    IF pairs = <<>> THEN <<>>
    ELSE SetKey(ObjectOf(SubSeq(pairs, 1, Len(pairs) - 1)),
                pairs[Len(pairs)].key.v, pairs[Len(pairs)].val)

\* two pairs with the same key scalar: "Map keys must be unique"
RepeatedKey(pairs) ==
    \E i, j \in 1..Len(pairs) :
        i # j /\ pairs[i].key = pairs[j].key /\ pairs[i].key.k # "nan"

\* the mapping of the pairs
YamlMapping(pairs) ==
    IF RepeatedKey(pairs) THEN YAMLThrows ELSE YamlNode(Obj(ObjectOf(pairs)))

\* text after a quoted scalar that is neither a separator nor a comment
Junk(l, n) ==
    /\ n.kind = "quoted"
    /\ SkipSpace(l, n.next) <= Len(l)
    /\ l[SkipSpace(l, n.next)] \notin FlowIndicators \cup {":", "#"}

RECURSIVE ScanNode(_, _, _)
RECURSIVE ScanFlow(_, _, _, _, _)

\* an item of a flow collection that starts at k: a node, or a pair
\* `key: value`, `key:` or in a mapping `key`; a pair of a flow sequence is
\* a mapping of its own.  The ':' may touch a key in quotes.
FlowItem(l, k, map, items) ==
    LET Entry(key, value) ==
            IF map THEN [key |-> key.value, val |-> value]
            ELSE Obj(ObjectOf(<<[key |-> key.value, val |-> value]>>))
        WithValue(key, val) ==
            CASE val.st # "ok" -> Scanned(val.st, "flow", Null, val.next)
              [] val.st = "ok" /\ Junk(l, val) -> Scanned("throws", "flow", Null, val.next)
              [] val.st = "ok" /\ ~Junk(l, val) ->
                    ScanFlow(l, val.next, map, Append(items, Entry(key, val.value)), TRUE)
        WithKey(key) ==
            LET c == SkipSpace(l, key.next)
                pair == /\ c <= Len(l)
                        /\ l[c] = ":"
                        /\ \/ c = Len(l)
                           \/ l[c + 1] \in YamlSpace \cup FlowIndicators
                           \/ key.kind = "quoted"
                v == SkipSpace(l, c + 1)
                empty == v > Len(l) \/ l[v] \in {",", "]", "}"}
            IN  CASE key.st # "ok" -> Scanned(key.st, "flow", Null, key.next)
                  [] key.st = "ok" /\ Junk(l, key) -> Scanned("throws", "flow", Null, key.next)
                  [] key.st = "ok" /\ ~Junk(l, key) /\ ~pair /\ (map => key.kind # "flow") ->
                        ScanFlow(l, key.next, map,
                                 Append(items, IF map THEN [key |-> key.value, val |-> Null]
                                               ELSE key.value),
                                 TRUE)
                  [] key.st = "ok" /\ pair /\ key.kind # "flow" /\ empty ->
                        ScanFlow(l, v, map, Append(items, Entry(key, Null)), TRUE)
                  [] key.st = "ok" /\ pair /\ key.kind # "flow" /\ ~empty ->
                        WithValue(key, ScanNode(l, v, TRUE))
    IN  WithKey(ScanNode(l, k, TRUE))

\* a flow sequence [a, b] or a flow mapping {a: 1} on one line, from the
\* place j after its bracket or after an item: items are those read so far,
\* sep tells that an item was read and a comma or the end comes next.  A
\* comma may stand before the end; an item left empty throws.
ScanFlow(l, j, map, items, sep) ==
    LET k == SkipSpace(l, j)
        closer == IF map THEN "}" ELSE "]"
    IN  IF k > Len(l) THEN Scanned("unclosed", "flow", Null, k)
        ELSE CASE l[k] = closer /\ map /\ RepeatedKey(items) -> Scanned("throws", "flow", Null, k + 1)
               [] l[k] = closer /\ map /\ ~RepeatedKey(items) ->
                     Scanned("ok", "flow", Obj(ObjectOf(items)), k + 1)
               [] l[k] = closer /\ ~map -> Scanned("ok", "flow", Arr(items), k + 1)
               [] l[k] = "," /\ sep -> ScanFlow(l, k + 1, map, items, FALSE)
               [] l[k] = "," /\ ~sep -> Scanned("throws", "flow", Null, k)
               [] l[k] \notin {closer, ",", "#"} /\ ~sep -> FlowItem(l, k, map, items)

\* the node that starts at l[i]: a scalar in quotes, a flow collection or a
\* plain scalar.  Anchors, aliases, tags, block scalars and the indicators
\* '- ', '? ' and ': ' in this place have no value here.
ScanNode(l, i, flow) ==
    CASE l[i] = "\"" -> ScanDouble(l, i)
      [] l[i] = "'" -> ScanSingle(l, i)
      [] l[i] \in {"[", "{"} -> ScanFlow(l, i + 1, l[i] = "{", <<>>, FALSE)
      [] IsPlainStart(l, i, flow) -> ScanPlain(l, i, flow)

\* The start of a line (without its indentation): st is "key" when the line
\* starts with an implicit key, a scalar before a ':' that white space or
\* the end of the line follows, with colon the place of the ':' ; "none"
\* when it holds no key; "throws" or "unclosed" when its first node does.
\* Text after a scalar in quotes that is no ':' and no comment throws.
YamlHead(l) ==
    LET After(n) ==
            LET c == SkipSpace(l, n.next)
            IN  CASE n.st # "ok" -> [st |-> n.st, colon |-> 0, key |-> Null]
                  [] n.st = "ok" /\ c > Len(l) -> [st |-> "none", colon |-> 0, key |-> Null]
                  [] n.st = "ok" /\ c <= Len(l) /\ l[c] = "#" /\ c > n.next ->
                        [st |-> "none", colon |-> 0, key |-> Null]
                  [] n.st = "ok" /\ c <= Len(l) /\ l[c] = ":" /\ n.kind # "flow"
                         /\ (c = Len(l) \/ l[c + 1] \in YamlSpace) ->
                        [st |-> "key", colon |-> c, key |-> n.value]
                  [] n.st = "ok" /\ c <= Len(l) /\ l[c] \notin {":", "#"} /\ n.kind = "quoted" ->
                        [st |-> "throws", colon |-> 0, key |-> Null]
    IN  IF IsSeqEntry(l) THEN [st |-> "none", colon |-> 0, key |-> Null]
        ELSE After(ScanNode(l, 1, FALSE))

\* the position of the ':' that ends the implicit key of the line, 0 when
\* the line has no key, -1 when YAML.parse throws at its first node
KeyColon(l) ==
    LET Of(head) ==
            CASE head.st = "key" -> head.colon
              [] head.st = "none" -> 0
              [] head.st \in {"throws", "unclosed"} -> -1
    IN  Of(YamlHead(l))

\* what a line holds from the place i on, where a node may start: nothing
\* when only white space or a comment follows
NodeText(l, i) ==
    LET From(j) == IF j > Len(l) \/ l[j] = "#" THEN <<>> ELSE SubSeq(l, j, Len(l))
    IN  From(SkipSpace(l, i))

\* the node of a text that holds one node and no key, with its comment
ScanValue(t) ==
    LET After(n) ==
            LET c == SkipSpace(t, n.next)
            IN  CASE n.st # "ok" -> n
                  [] n.st = "ok" /\ (c > Len(t) \/ (t[c] = "#" /\ c > n.next)) -> n
                  [] n.st = "ok" /\ c <= Len(t) /\ t[c] \notin {":", "#"} /\ n.kind = "quoted" ->
                        Scanned("throws", "quoted", Null, c)
    IN  After(ScanNode(t, 1, FALSE))

\* a flow sequence, a flow mapping or a scalar, on one line
ResolveNode(t) ==
    LET Scalar(n) == IF n.st = "ok" THEN YamlNode(n.value) ELSE YAMLThrows
        Of(text) == IF text = <<>> THEN YamlNode(Null) ELSE Scalar(ScanValue(text))
    IN  Of(NodeText(t, 1))

\* a line as a line of a plain scalar that began before it: quotes and
\* brackets are text; the place of the white space before its comment, or
\* the place after its end
CommentAt(l) ==
    SetMin({j \in 1..(Len(l) + 1) : j > Len(l) \/ (l[j] \in YamlSpace /\ j < Len(l) /\ l[j + 1] = "#")})
PlainText(l) == StripEnd(SubSeq(l, 1, CommentAt(l) - 1), YamlSpace)
PlainColon(l) ==
    LET Within(t) == \E j \in 1..Len(t) : t[j] = ":" /\ (j = Len(t) \/ l[j + 1] \in YamlSpace)
    IN  Within(PlainText(l))

\* a line of the document: its indentation, its text without indentation
\* and trailing white space, the number of blank lines before it, and
\* whether a line of comment stands before it
YamlLineOf(l, gap, cut) ==
    [indent |-> Len(l) - Len(StripStart(l, {" "})),
     text |-> StripEnd(StripStart(l, {" "}), YamlSpace \cup {"\r"}),
     gap |-> gap,
     cut |-> cut]

\* the lines of the document that are neither blank nor a comment
RECURSIVE YamlLines(_, _, _, _)
YamlLines(raw, i, gap, cut) ==
    LET Next(line) ==
            IF line.text = <<>> THEN YamlLines(raw, i + 1, gap + 1, cut)
            ELSE IF line.text[1] = "#" THEN YamlLines(raw, i + 1, gap, TRUE)
            ELSE <<line>> \o YamlLines(raw, i + 1, 0, FALSE)
    IN  IF i > Len(raw) THEN <<>> ELSE Next(YamlLineOf(raw[i], gap, cut))

\* line folding of a plain scalar: a line break becomes a space, and each
\* blank line a line break
RECURSIVE Fold(_)
Fold(ls) ==
    IF Len(ls) = 1 THEN PlainText(ls[1].text)
    ELSE Fold(SubSeq(ls, 1, Len(ls) - 1))
            \o (IF ls[Len(ls)].gap = 0 THEN <<" ">>
                ELSE [i \in 1..ls[Len(ls)].gap |-> "\n"])
            \o PlainText(ls[Len(ls)].text)

\* the plain scalar of several lines; a comment inside it ends it early and
\* leaves the lines after it without a value here
FoldLines(ls) ==
    CASE \A k \in 2..Len(ls) : ~ls[k].cut /\ CommentAt(ls[k - 1].text) > Len(ls[k - 1].text) ->
            Str(Fold(ls))

\* the lines from the k-th start to the next one
Group(ls, starts, k) ==
    SubSeq(ls, starts[k], (IF k < Len(starts) THEN starts[k + 1] ELSE Len(ls) + 1) - 1)

\* a scalar or a flow collection on one line, or a plain scalar of several
\* lines
YamlScalar(ls) ==
    IF Len(ls) = 1 THEN ResolveNode(ls[1].text)
    ELSE IF ls[1].text[1] \in Quotes \cup {"[", "{"}
            \/ \E i \in 2..Len(ls) : PlainColon(ls[i].text)
    THEN YAMLThrows
    ELSE YamlNode(FoldLines(ls))

RECURSIVE YamlBlock(_)

\* the node of one `- ...` entry with the deeper lines that follow it: what
\* follows the dash is a line of its own, indented to its column
YamlItem(group, n) ==
    LET After(rest) ==
            IF rest = <<>> /\ Len(group) = 1 THEN YamlNode(Null)
            ELSE YamlBlock(IF rest = <<>> THEN Tail(group)
                           ELSE <<[indent |-> n + (Len(group[1].text) - Len(rest)),
                                   text |-> rest, gap |-> 0, cut |-> FALSE]>> \o Tail(group))
    IN  After(NodeText(group[1].text, 2))

\* the block sequence of the entries
YamlSequence(items) ==
    IF \E k \in 1..Len(items) : ~items[k].ok THEN YAMLThrows
    ELSE YamlNode(Arr([k \in 1..Len(items) |-> items[k].value]))

\* the value of the key of a line of a block mapping: what follows the colon
\* on the line, continued on deeper lines when it is a plain scalar, or the
\* block of the lines that follow
YamlValue(inline, children, n) ==
    LET Inline(colon) ==
            IF colon # 0 THEN YAMLThrows
            ELSE IF children = <<>> THEN ResolveNode(inline)
            ELSE IF \/ \E i \in 1..Len(children) : children[i].indent <= n
                    \/ \E i \in 1..Len(children) : PlainColon(children[i].text)
                    \/ inline[1] \in Quotes \cup {"[", "{"}
            THEN YAMLThrows
            ELSE YamlNode(FoldLines(<<[indent |-> n, text |-> inline, gap |-> 0, cut |-> FALSE]>>
                                      \o children))
    IN  IF inline # <<>> THEN Inline(KeyColon(inline))
        ELSE IF children = <<>> THEN YamlNode(Null)
        ELSE YamlBlock(children)

\* the entry `key: value` of a line of a block mapping, with its deeper lines
YamlEntry(group, n) ==
    LET Of(head) ==
            [key |-> head.key,
             node |-> YamlValue(NodeText(group[1].text, head.colon + 1), Tail(group), n)]
    IN  Of(YamlHead(group[1].text))

\* the block mapping of the entries
YamlBlockMapping(entries) ==
    IF \E k \in 1..Len(entries) : ~entries[k].node.ok THEN YAMLThrows
    ELSE YamlMapping([k \in 1..Len(entries) |->
                         [key |-> entries[k].key, val |-> entries[k].node.value]])

\* the lines of a block at which an entry starts: those at the indentation
\* of the block; in a mapping, a `- ` line there belongs to the key before it
Starts(ls, n, mapping) ==
    SelectSeq([i \in 1..Len(ls) |-> i],
              LAMBDA i : ls[i].indent = n /\ ~(mapping /\ i > 1 /\ IsSeqEntry(ls[i].text)))

\* the node of a block of lines: a sequence when its first line is a `- `
\* entry, a mapping when its first line has a key, else a scalar
YamlBlock(ls) ==
    LET n == ls[1].indent
        Sequence(starts) ==
            IF \E k \in 1..Len(starts) : ~IsSeqEntry(ls[starts[k]].text) THEN YAMLThrows
            ELSE YamlSequence([k \in 1..Len(starts) |-> YamlItem(Group(ls, starts, k), n)])
        Mapping(starts) ==
            IF \E k \in 1..Len(starts) : YamlHead(ls[starts[k]].text).st # "key" THEN YAMLThrows
            ELSE YamlBlockMapping([k \in 1..Len(starts) |-> YamlEntry(Group(ls, starts, k), n)])
        First(colon) ==
            IF colon < 0 THEN YAMLThrows
            ELSE IF colon = 0 THEN YamlScalar(ls)
            ELSE IF \E i \in 1..Len(ls) : ls[i].indent < n THEN YAMLThrows
            ELSE Mapping(Starts(ls, n, TRUE))
    IN  IF ~IsSeqEntry(ls[1].text) THEN First(KeyColon(ls[1].text))
        ELSE IF \E i \in 1..Len(ls) : ls[i].indent < n THEN YAMLThrows
        ELSE Sequence(Starts(ls, n, FALSE))

\* the document of the lines that are not blank: null when there is none
YamlDocument(used) ==
    IF used = <<>> THEN YamlNode(Null) ELSE YamlBlock(used)

\* what the lexer makes of a line read on its own, a `- ` entry, a key with
\* its value or a node: "ok", "throws" or "unclosed"
RECURSIVE LineStatus(_)
LineStatus(l) ==
    LET Value(text) ==
            IF text = <<>> THEN "ok"
            ELSE IF YamlHead(text).st = "key" THEN "throws"
            ELSE ScanValue(text).st
        Of(head) ==
            IF head.st \in {"throws", "unclosed"} THEN head.st
            ELSE IF head.st = "none" THEN "ok"
            ELSE Value(NodeText(l, head.colon + 1))
    IN  IF l = <<>> \/ l[1] = "#" THEN "ok"
        ELSE IF IsSeqEntry(l) THEN LineStatus(NodeText(l, 2))
        ELSE Of(YamlHead(l))

\* --- or ... at the start of a line
DocumentMarker(l) ==
    /\ Len(l) >= 3
    /\ SubSeq(l, 1, 3) \in {<<"-", "-", "-">>, <<".", ".", ".">>}
    /\ Len(l) = 3 \/ l[4] \in YamlSpace \cup {"\r"}

\* The documents read here: on every line the lexer finds a `- ` entry, a
\* key, a scalar (plain or in quotes without escapes), a flow collection or
\* a comment, indented with spaces; a scalar in quotes or a flow collection
\* that is left open is on the last line.  Document markers, directives,
\* anchors, aliases, tags, block scalars (| and >), explicit keys (?), and
\* scalars in quotes or flow collections of several lines are outside.
InGrammar(raw) ==
    \A i \in 1..Len(raw) :
        /\ ~DocumentMarker(raw[i])
        /\ StripStart(raw[i], {" "}) # <<>> => StripStart(raw[i], {" "})[1] # "\t"
        /\ LineStatus(YamlLineOf(raw[i], 0, FALSE).text) = "unclosed" =>
               \A j \in (i + 1)..Len(raw) : YamlLineOf(raw[j], 0, FALSE).text = <<>>

\* YAML.parse(text): [ok |-> FALSE] when it throws, else [ok |-> TRUE, value]
YAMLParse(text) ==
    LET Of(raw) == CASE InGrammar(raw) -> YamlDocument(YamlLines(raw, 1, 0, FALSE))
    IN  Of(Split(text, <<"\n">>))

(***************************************************************************)
(* Date.parse, as V8 computes it (the engine of Node): the string is cut   *)
(* into tokens, the date-time string format of ECMAScript is tried first,  *)
(* and the token where it stops goes to the legacy parser, which reads     *)
(* numbers, month names, time zones and signs in almost any order.  The    *)
(* day, the time and the zone found are then checked and the time value    *)
(* is clipped.  A date-time without a zone is read in the local time zone  *)
(* of the process (timeZone), here a zone of one fixed offset.             *)
(***************************************************************************)
kNone == -1
Letters ==
    {"A", "B", "C", "D", "E", "F", "G", "H", "I", "J", "K", "L", "M", "N", "O", "P", "Q",
     "R", "S", "T", "U", "V", "W", "X", "Y", "Z", "a", "b", "c", "d", "e", "f", "g", "h",
     "i", "j", "k", "l", "m", "n", "o", "p", "q", "r", "s", "t", "u", "v", "w", "x", "y", "z"}
UpperCase ==
    <<"A", "B", "C", "D", "E", "F", "G", "H", "I", "J", "K", "L", "M", "N", "O", "P", "Q",
      "R", "S", "T", "U", "V", "W", "X", "Y", "Z">>
LowerCase ==
    <<"a", "b", "c", "d", "e", "f", "g", "h", "i", "j", "k", "l", "m", "n", "o", "p", "q",
      "r", "s", "t", "u", "v", "w", "x", "y", "z">>
AsciiAlphaToLower(c) ==
    IF \E i \in 1..Len(UpperCase) : UpperCase[i] = c
    THEN LowerCase[CHOOSE i \in 1..Len(UpperCase) : UpperCase[i] = c]
    ELSE c

\* the names of the control characters U+0000 .. U+001F
ControlNames ==
    {"U+0000", "U+0001", "U+0002", "U+0003", "U+0004", "U+0005", "U+0006", "U+0007",
     "U+0008", "U+0009", "U+000A", "U+000B", "U+000C", "U+000D", "U+000E", "U+000F",
     "U+0010", "U+0011", "U+0012", "U+0013", "U+0014", "U+0015", "U+0016", "U+0017",
     "U+0018", "U+0019", "U+001A", "U+001B", "U+001C", "U+001D", "U+001E", "U+001F"}
\* the line separators, which the scanner takes for characters of a word:
\* its test for a word excludes the WhiteSpace characters only
LineSeparators == {"U+2028", "U+2029"}

\* the class of a character for the scanner: a digit, one of the symbols
\* : - + . ) (the class is the symbol), "(", a character of a word (code
\* 'A' or above and no WhiteSpace character; a code point name stands for a
\* character outside ASCII, for a control character or for the grave
\* accent, U+0060), white space (a WhiteSpace character, a line feed or a
\* carriage return), or anything else
CharClass(c) ==
    CASE c \in Digits -> "num"
      [] c \in {":", "-", "+", ".", ")", "("} -> c
      [] c \in LineSeparators -> "kw"
      [] c \in WhiteSpace \ LineSeparators -> "ws"
      [] c \in Letters \cup {"[", "\\", "]", "^", "_", "{", "|", "}", "~"} -> "kw"
      [] Len(c) > 1 /\ c \notin WhiteSpace \cup ControlNames -> "kw"
      [] OTHER -> "unk"

\* the position after the run of characters of one class that starts at i
RECURSIVE RunEnd(_, _, _)
RunEnd(t, i, class) ==
    IF i <= Len(t) /\ CharClass(t[i]) = class THEN RunEnd(t, i + 1, class) ELSE i

\* the position after the parenthesised text that starts at i; the text
\* ends at a character U+0000 as at the end of the string
RECURSIVE SkipParentheses(_, _, _)
SkipParentheses(t, i, balance) ==
    LET b == IF t[i] = ")" THEN balance - 1 ELSE IF t[i] = "(" THEN balance + 1 ELSE balance
    IN  IF b > 0 /\ i < Len(t) /\ t[i + 1] # "U+0000" THEN SkipParentheses(t, i + 1, b)
        ELSE i + 1

DateToken(tag, kw, n, len) == [tag |-> tag, kw |-> kw, n |-> n, len |-> len]
Symbol(c) == DateToken(c, "", 0, 1)
EndOfInput == DateToken("end", "", 0, 0)
InvalidToken == DateToken("invalid", "", 0, 0)
NoToken == DateToken("none", "", 0, 0)

\* the number of a run of digits: leading zeros are skipped and nine digits
\* at most are read, the rest only counts for the length
ReadUnsignedNumeral(ds) ==
    LET sig == StripStart(ds, {"0"})
    IN  NumValue(SubSeq(sig, 1, IF Len(sig) < 9 THEN Len(sig) ELSE 9))

KeywordTable ==
    << <<"jan", "month", 1>>, <<"feb", "month", 2>>, <<"mar", "month", 3>>,
       <<"apr", "month", 4>>, <<"may", "month", 5>>, <<"jun", "month", 6>>,
       <<"jul", "month", 7>>, <<"aug", "month", 8>>, <<"sep", "month", 9>>,
       <<"oct", "month", 10>>, <<"nov", "month", 11>>, <<"dec", "month", 12>>,
       <<"am", "ampm", 0>>, <<"pm", "ampm", 12>>,
       <<"ut", "zone", 0>>, <<"utc", "zone", 0>>, <<"z", "zone", 0>>, <<"gmt", "zone", 0>>,
       <<"cdt", "zone", -5>>, <<"cst", "zone", -6>>, <<"edt", "zone", -4>>,
       <<"est", "zone", -5>>, <<"mdt", "zone", -6>>, <<"mst", "zone", -7>>,
       <<"pdt", "zone", -7>>, <<"pst", "zone", -8>>, <<"t", "T", 0>> >>

\* the keyword of a word: its first three characters in lower case are a
\* word of the table, and only a month name may be longer than that
KeywordLookup(word) ==
    LET pre == [i \in 1..(IF Len(word) < 3 THEN Len(word) ELSE 3) |-> AsciiAlphaToLower(word[i])]
        name == IF Len(pre) = 1 THEN pre[1]
                ELSE IF Len(pre) = 2 THEN pre[1] \o pre[2]
                ELSE pre[1] \o pre[2] \o pre[3]
        hits == {i \in 1..Len(KeywordTable) :
                    /\ \A j \in 1..Len(pre) : Len(pre[j]) = 1
                    /\ KeywordTable[i][1] = name
                    /\ (Len(word) <= 3 \/ KeywordTable[i][2] = "month")}
    IN  IF hits = {} THEN DateToken("kw", "invalid", 0, Len(word))
        ELSE LET i == CHOOSE i \in hits : TRUE
             IN  DateToken("kw", KeywordTable[i][2], KeywordTable[i][3], Len(word))

\* the tokens of t from the position i on, the end of input last: the
\* input ends at the end of the string or at a character U+0000.  A run of
\* digits is one token and so is a word; a character of white space is a
\* token of its own.
RECURSIVE Scan(_, _)
Scan(t, i) ==
    IF i > Len(t) \/ t[i] = "U+0000" THEN <<EndOfInput>>
    ELSE LET class == CharClass(t[i])
             j == IF class \in {"num", "kw"} THEN RunEnd(t, i, class)
                  ELSE IF class = "(" THEN SkipParentheses(t, i, 0)
                  ELSE i + 1
             token == CASE class = "num" -> DateToken("num", "", ReadUnsignedNumeral(SubSeq(t, i, j - 1)), j - i)
                        [] class = "kw" -> KeywordLookup(SubSeq(t, i, j - 1))
                        [] class = "ws" -> DateToken("ws", "", 0, j - i)
                        [] class \in {":", "-", "+", ".", ")"} -> Symbol(class)
                        [] OTHER -> DateToken("unk", "", 0, j - i)
         IN  <<token>> \o Scan(t, j)

IsAsciiSign(token) == token.tag \in {"+", "-"}
IsFixedNumber(token, len) == token.tag = "num" /\ token.len = len
IsKeywordZ(token) == token.tag = "kw" /\ token.kw = "zone" /\ token.len = 1

\* the milliseconds of the digits after the '.' of the seconds: the first
\* three digits count
ReadMilliseconds(token) ==
    LET len == IF token.len > 9 THEN 9 ELSE token.len
    IN  CASE token.len = 1 -> token.n * 100
          [] token.len = 2 -> token.n * 10
          [] token.len = 3 -> token.n
          [] len = 4 -> token.n \div 10
          [] len = 5 -> token.n \div 100
          [] len = 6 -> token.n \div 1000
          [] len = 7 -> token.n \div 10000
          [] len = 8 -> token.n \div 100000
          [] OTHER -> token.n \div 1000000

\* The parser's state: p is the position of the token the scanner shows
\* next, tok the token in hand (NoToken while the date-time string format
\* is being read), day / time the numbers collected, named the month read
\* by name, sign / hour / minute the time zone, read whether a number has
\* been read, ok whether the string is still acceptable.
DateStart ==
    [p |-> 1, tok |-> NoToken, day |-> <<>>, named |-> kNone, iso |-> FALSE,
     time |-> <<>>, hourOffset |-> kNone, sign |-> 0, hour |-> kNone, minute |-> kNone,
     read |-> FALSE, ok |-> TRUE]

\* scanner.Next(): the token shown becomes the token in hand
ScannerNext(toks, s) ==
    [s EXCEPT !.tok = toks[s.p], !.p = IF toks[s.p].tag = "end" THEN s.p ELSE s.p + 1]
Invalid(s) == [s EXCEPT !.tok = InvalidToken]
Fail(s) == [s EXCEPT !.ok = FALSE]
\* tz.Set(offset in hours)
SetZone(s, value) ==
    [s EXCEPT !.sign = IF value < 0 THEN -1 ELSE 1,
              !.hour = IF value < 0 THEN -value ELSE value,
              !.minute = 0]

\* [-+]yyyyyy or yyyy
ES5Year(toks, s) ==
    LET a == toks[s.p]
    IN  IF IsAsciiSign(a)
        THEN LET b == toks[s.p + 1]
             IN  IF ~IsFixedNumber(b, 6) THEN [s EXCEPT !.p = s.p + 1, !.tok = a]
                 ELSE IF a.tag = "-" /\ b.n = 0 THEN [s EXCEPT !.p = s.p + 2, !.tok = a]
                 ELSE [s EXCEPT !.p = s.p + 2, !.day = <<IF a.tag = "-" THEN -b.n ELSE b.n>>]
        ELSE IF IsFixedNumber(a, 4) THEN [s EXCEPT !.p = s.p + 1, !.day = <<a.n>>]
        ELSE ScannerNext(toks, s)

\* -MM after the year (count 1, max 12), -DD after the month (count 2, max 31)
ES5Field(toks, s, count, max) ==
    IF s.tok.tag # "none" \/ Len(s.day) # count \/ toks[s.p].tag # "-" THEN s
    ELSE LET b == toks[s.p + 1]
         IN  IF IsFixedNumber(b, 2) /\ b.n \in 1..max
             THEN [s EXCEPT !.p = s.p + 2, !.day = Append(@, b.n)]
             ELSE ScannerNext(toks, [s EXCEPT !.p = s.p + 1])

\* 'T'HH:mm, or the end of the string, or a token for the legacy parser
ES5HourMinute(toks, s) ==
    IF s.tok.tag # "none" THEN s
    ELSE IF ~(toks[s.p].tag = "kw" /\ toks[s.p].kw = "T")
    THEN IF toks[s.p].tag # "end" THEN ScannerNext(toks, s) ELSE s
    ELSE LET h == toks[s.p + 1]
         IN  IF ~(IsFixedNumber(h, 2) /\ h.n <= 24) THEN Invalid(s)
             ELSE IF toks[s.p + 2].tag # ":" THEN Invalid(s)
             ELSE LET m == toks[s.p + 3]
                  IN  IF IsFixedNumber(m, 2) /\ m.n <= 59 /\ (h.n = 24 => m.n = 0)
                      THEN [s EXCEPT !.p = s.p + 4, !.time = <<h.n, m.n>>]
                      ELSE Invalid(s)

\* :ss
ES5Second(toks, s) ==
    IF s.tok.tag # "none" \/ Len(s.time) # 2 \/ toks[s.p].tag # ":" THEN s
    ELSE LET x == toks[s.p + 1]
         IN  IF IsFixedNumber(x, 2) /\ x.n <= 59 /\ (s.time[1] = 24 => x.n = 0)
             THEN [s EXCEPT !.p = s.p + 2, !.time = Append(@, x.n)]
             ELSE Invalid(s)

\* .sss, of any number of digits
ES5Millisecond(toks, s) ==
    IF s.tok.tag # "none" \/ Len(s.time) # 3 \/ toks[s.p].tag # "." THEN s
    ELSE LET x == toks[s.p + 1]
         IN  IF x.tag = "num" /\ (s.time[1] = 24 => x.n = 0)
             THEN [s EXCEPT !.p = s.p + 2, !.time = Append(@, ReadMilliseconds(x))]
             ELSE Invalid(s)

\* Z, +hh:mm, -hh:mm, +hhmm or -hhmm after a time
ES5Zone(toks, s) ==
    IF s.tok.tag # "none" \/ s.time = <<>> THEN s
    ELSE IF IsKeywordZ(toks[s.p]) THEN SetZone([s EXCEPT !.p = s.p + 1], 0)
    ELSE IF ~IsAsciiSign(toks[s.p]) THEN s
    ELSE LET sign == IF toks[s.p].tag = "+" THEN 1 ELSE -1
             a == toks[s.p + 1]
         IN  IF IsFixedNumber(a, 4)
             THEN IF (a.n \div 100) <= 23 /\ (a.n % 100) <= 59
                  THEN [s EXCEPT !.p = s.p + 2, !.sign = sign,
                                 !.hour = a.n \div 100, !.minute = a.n % 100]
                  ELSE Invalid(s)
             ELSE IF ~(IsFixedNumber(a, 2) /\ a.n <= 23) THEN Invalid(s)
             ELSE IF toks[s.p + 2].tag # ":" THEN Invalid(s)
             ELSE LET b == toks[s.p + 3]
                  IN  IF IsFixedNumber(b, 2) /\ b.n <= 59
                      THEN [s EXCEPT !.p = s.p + 4, !.sign = sign, !.hour = a.n, !.minute = b.n]
                      ELSE Invalid(s)

\* nothing may follow a time; a date alone is in UTC
ES5End(toks, s) ==
    IF s.tok.tag # "none" THEN s
    ELSE IF s.time # <<>> /\ toks[s.p].tag # "end" THEN Invalid(s)
    ELSE LET z == IF s.hour = kNone /\ s.time = <<>> THEN SetZone(s, 0) ELSE s
         IN  [z EXCEPT !.iso = TRUE, !.tok = EndOfInput]

ParseES5DateTime(toks) ==
    ES5End(toks, ES5Zone(toks, ES5Millisecond(toks, ES5Second(toks, ES5HourMinute(toks,
        ES5Field(toks, ES5Field(toks, ES5Year(toks, DateStart), 1, 12), 2, 31))))))

\* time.IsExpecting(n): n can be the next part of the time
TimeIsExpecting(time, n) ==
    \/ Len(time) \in {1, 2} /\ n <= 59
    \/ Len(time) = 3 /\ n <= 999
\* time.AddFinal(n): n is the last part read, the parts after it are 0
TimeAddFinal(time, n) ==
    IF Len(time) >= 4 THEN time
    ELSE [i \in 1..4 |-> IF i <= Len(time) THEN time[i] ELSE IF i = Len(time) + 1 THEN n ELSE 0]

\* a number in hand: a part of the time when ':' or '.' follows or the time
\* expects it, the minutes of the zone after a sign and ':' when it is 59
\* at most (tz.IsExpecting), else a part of the day
LegacyNumber(toks, s) ==
    LET n == s.tok.n
        a == toks[s.p]
        q == IF a.tag = "." THEN s.p + 1 ELSE s.p
    IN  IF a.tag = ":"
        THEN IF toks[s.p + 1].tag = ":"
             THEN IF s.time # <<>> THEN Fail(s)
                  ELSE [s EXCEPT !.time = <<n, 0>>, !.p = s.p + 2]
             ELSE IF Len(s.time) >= 4 THEN Fail(s)
             ELSE [s EXCEPT !.time = Append(@, n),
                            !.p = IF toks[s.p + 1].tag = "." THEN s.p + 2 ELSE s.p + 1]
        ELSE IF a.tag = "." /\ TimeIsExpecting(s.time, n)
        THEN IF toks[q].tag # "num" THEN Fail(s)
             ELSE [s EXCEPT !.time = TimeAddFinal(Append(@, n), ReadMilliseconds(toks[q])),
                            !.p = q + 1]
        ELSE IF s.hour # kNone /\ s.minute = kNone /\ n <= 59
        THEN [s EXCEPT !.minute = n, !.p = q]
        ELSE IF TimeIsExpecting(s.time, n)
        THEN IF toks[q].tag \in {"end", "ws"} \/ IsKeywordZ(toks[q]) \/ IsAsciiSign(toks[q])
             THEN [s EXCEPT !.time = TimeAddFinal(@, n), !.p = q]
             ELSE Fail(s)
        ELSE IF Len(s.day) >= 3 THEN Fail(s)
        ELSE [s EXCEPT !.day = Append(@, n), !.p = IF toks[q].tag = "-" THEN q + 1 ELSE q]

\* a word in hand: AM or PM after a time, a month name, a time zone after
\* a number; any other word is allowed only before the first number and
\* apart from it
LegacyKeyword(toks, s) ==
    IF s.tok.kw = "ampm" /\ s.time # <<>> THEN [s EXCEPT !.hourOffset = s.tok.n]
    ELSE IF s.tok.kw = "month"
    THEN [s EXCEPT !.named = s.tok.n, !.p = IF toks[s.p].tag = "-" THEN s.p + 1 ELSE s.p]
    ELSE IF s.tok.kw = "zone" /\ s.read THEN SetZone(s, s.tok.n)
    ELSE IF s.read \/ toks[s.p].tag = "num" THEN Fail(s)
    ELSE s

\* a sign in hand after UTC or a time: the offset from UTC, as h, hh, hmm,
\* hhmm or hh:mm
LegacySign(toks, s) ==
    LET a == toks[s.p]
        n == IF a.tag = "num" THEN a.n ELSE 0
        len == IF a.tag = "num" THEN a.len ELSE 0
        q == IF a.tag = "num" THEN s.p + 1 ELSE s.p
        z == [s EXCEPT !.sign = IF s.tok.tag = "+" THEN 1 ELSE -1, !.read = TRUE, !.p = q]
    IN  IF toks[q].tag = ":" THEN [z EXCEPT !.hour = n, !.minute = kNone]
        ELSE IF len \in {1, 2} THEN [z EXCEPT !.hour = n, !.minute = 0]
        ELSE IF len \in {3, 4} THEN [z EXCEPT !.hour = n \div 100, !.minute = n % 100]
        ELSE Fail(z)

LegacyToken(toks, s) ==
    IF s.tok.tag = "num" THEN LegacyNumber(toks, [s EXCEPT !.read = TRUE])
    ELSE IF s.tok.tag = "kw" THEN LegacyKeyword(toks, s)
    ELSE IF IsAsciiSign(s.tok) /\ ((s.hour = 0 /\ s.minute = 0) \/ s.time # <<>>)
    THEN LegacySign(toks, s)
    ELSE IF (IsAsciiSign(s.tok) \/ s.tok.tag = ")") /\ s.read THEN Fail(s)
    ELSE s

\* the loop of the legacy parser over the tokens that are left
RECURSIVE LegacyParse(_, _)
LegacyParse(toks, s) ==
    IF ~s.ok \/ s.tok.tag = "end" THEN s
    ELSE LET z == LegacyToken(toks, s)
         IN  LegacyParse(toks, IF z.ok THEN ScannerNext(toks, z) ELSE z)

\* day.Write: the year, month and day of the numbers read, or <<>>.  The
\* missing numbers are 1; the order is year-month-day in the date-time
\* string format or when the first number is no day, else month-day-year;
\* a year below 100 is in 1950..2049
DayWrite(s) ==
    LET comp == [i \in 1..3 |-> IF i <= Len(s.day) THEN s.day[i] ELSE 1]
        first == comp[1] \in 1..31
        ymd == IF s.named = kNone
               THEN IF s.iso \/ ~first THEN comp ELSE <<comp[3], comp[1], comp[2]>>
               ELSE IF ~first THEN <<comp[1], s.named, comp[2]>>
               ELSE <<comp[2], s.named, comp[1]>>
        year == IF s.iso THEN ymd[1]
                ELSE IF ymd[1] \in 0..49 THEN ymd[1] + 2000
                ELSE IF ymd[1] \in 50..99 THEN ymd[1] + 1900
                ELSE ymd[1]
    IN  IF s.day # <<>> /\ ymd[2] \in 1..12 /\ ymd[3] \in 1..31
        THEN <<year, ymd[2], ymd[3]>>
        ELSE <<>>

\* time.Write: the hour, minute, second and millisecond, or <<>>
TimeWrite(s) ==
    LET tm == [i \in 1..4 |-> IF i <= Len(s.time) THEN s.time[i] ELSE 0]
        hour == IF s.hourOffset = kNone THEN tm[1] ELSE (tm[1] % 12) + s.hourOffset
    IN  IF s.hourOffset # kNone /\ tm[1] > 12 THEN <<>>
        ELSE IF \/ hour <= 23 /\ tm[2] <= 59 /\ tm[3] <= 59 /\ tm[4] <= 999
                \/ hour = 24 /\ tm[2] = 0 /\ tm[3] = 0 /\ tm[4] = 0
        THEN <<hour, tm[2], tm[3], tm[4]>>
        ELSE <<>>

\* hour * 3600 + minute * 60 as the parser computes it, in unsigned 32-bit
\* arithmetic, when that is 2^31 - 1 at most: <<seconds>>, else <<>>.  With
\* 3600 = 16 * 225 the product modulo 2^32 is 16 times hour * 225 modulo
\* 2^28, which is computed on the halves of 14 bits of the hour.
TotalSeconds(hour, minute) ==
    LET lo == hour % 16384
        hi == (hour \div 16384) % 16384
        x == (((hi * 225) % 16384) * 16384 + lo * 225) % 268435456
        d == 268435456 - x
    IN  IF d <= 400 /\ minute * 60 >= d * 16 THEN <<minute * 60 - d * 16>>
        ELSE IF x <= (2147483647 - minute * 60) \div 16 THEN <<x * 16 + minute * 60>>
        ELSE <<>>

\* tz.Write: whether it succeeds, and the offset from UTC in seconds as
\* <<offset>>, or <<>> when the string names no zone.  It fails when the
\* seconds of the offset exceed 2^31 - 1.
ZoneWrite(s) ==
    LET After(total) ==
            IF total = <<>> THEN [ok |-> FALSE, utc |-> <<>>]
            ELSE [ok |-> TRUE, utc |-> <<s.sign * total[1]>>]
    IN  IF s.sign = 0 THEN [ok |-> TRUE, utc |-> <<>>]
        ELSE After(TotalSeconds(IF s.hour = kNone THEN 0 ELSE s.hour,
                                IF s.minute = kNone THEN 0 ELSE s.minute))

\* the day number of a date, 0 for 1970-01-01; a day beyond the end of its
\* month runs into the next month
DaysFromCivil(y, m, d) ==
    LET y2 == IF m <= 2 THEN y - 1 ELSE y
        era == y2 \div 400
        yoe == y2 - era * 400
        doy == ((153 * (IF m > 2 THEN m - 3 ELSE m + 9) + 2) \div 5) + d - 1
        doe == yoe * 365 + (yoe \div 4) - (yoe \div 100) + doy
    IN  era * 146097 + doe - 719468

\* MakeDay, MakeTime, MakeDate and TimeClip: the time value is a number
\* when the year is within a million years of 0 and the instant within
\* 100,000,000 days of 1970-01-01T00:00:00Z.  A date-time without a zone
\* is a local time, at the offset of the local time zone.
TimeClips(ymd, tm, zone) ==
    /\ ymd[1] \in (-1000000)..1000000
    /\ LET offset == IF zone = <<>> THEN timeZone ELSE zone[1]
           seconds == (tm[1] * 60 + tm[2]) * 60 + tm[3] - (offset % 86400)
           days == DaysFromCivil(ymd[1], ymd[2], ymd[3]) - (offset \div 86400)
                     + (seconds \div 86400)
           rest == seconds % 86400
       IN  /\ days >= -100000000
           /\ days < 100000000 \/ (days = 100000000 /\ rest = 0 /\ tm[4] = 0)

\* DateParser::Parse and the checks after it
ParsedDate(toks) ==
    LET es5 == ParseES5DateTime(toks)
    IN  IF es5.tok.tag = "invalid" THEN Fail(es5)
        ELSE LegacyParse(toks, [es5 EXCEPT !.read = es5.day # <<>>])

\* !isNaN(Date.parse(val))
DateParses(t) ==
    LET s == ParsedDate(Scan(t, 1))
    IN  /\ s.ok
        /\ DayWrite(s) # <<>>
        /\ TimeWrite(s) # <<>>
        /\ ZoneWrite(s).ok
        /\ TimeClips(DayWrite(s), TimeWrite(s), ZoneWrite(s).utc)

(***************************************************************************)
(* zod: the checks of z.string(), z.number(), z.boolean(), z.array(),      *)
(* z.any(), .refine(), .optional() and z.object().parse().  An issue is    *)
(* [field, index, message]: the path is the field's key and, for an array  *)
(* element, its 1-based index (0 otherwise); field <<>> is the root.       *)
(***************************************************************************)
Issue(field, index, message) == [field |-> field, index |-> index, message |-> message]

T_string == <<"s", "t", "r", "i", "n", "g">>
T_number == <<"n", "u", "m", "b", "e", "r">>
T_boolean == <<"b", "o", "o", "l", "e", "a", "n">>
T_date == <<"d", "a", "t", "e">>
T_array == <<"a", "r", "r", "a", "y">>
T_json == <<"j", "s", "o", "n">>
T_type == <<"t", "y", "p", "e">>
T_blog == <<"b", "l", "o", "g">>
T_docs == <<"d", "o", "c", "s">>
T_toString == <<"t", "o", "S", "t", "r", "i", "n", "g">>

\* the zod type createDynamicSchema's switch builds for a declared type
ZodTypeOf(type) ==
    CASE type = T_string -> "ZodString"
      [] type = T_number -> "ZodNumber"
      [] type = T_boolean -> "ZodBoolean"
      [] type = T_date -> "ZodDateString"
      [] type = T_array -> "ZodArrayOfString"
      [] OTHER -> "ZodAny"

\* the schema of one field: its zod type, wrapped by .optional() unless
\* field.required
FieldSchema(field) ==
    [zod |-> ZodTypeOf(field.type.v), optional |-> field.required # Bool(T_true)]

\* schemaFields[field.name] = ... for each field in turn, on the object
\* literal {}: a later field of the same name replaces the schema of the
\* earlier one, and the keys take the order of the own keys of an object
RECURSIVE SchemaFields(_)
SchemaFields(metadataConfig) ==
    IF metadataConfig = <<>> THEN <<>>
    ELSE Assign(SchemaFields(SubSeq(metadataConfig, 1, Len(metadataConfig) - 1)),
                metadataConfig[Len(metadataConfig)].name.v,
                FieldSchema(metadataConfig[Len(metadataConfig)]))

\* createDynamicSchema(metadataConfig): the shape of the z.object
createDynamicSchema(metadataConfig) == SchemaFields(metadataConfig)

\* the issues of a value that is not undefined against a zod type, at `field`
TypeIssues(zod, field, val) ==
    CASE zod = "ZodString" ->
            IF val.k = "str" THEN <<>> ELSE <<Issue(field, 0, "invalid_type")>>
      [] zod = "ZodNumber" ->
            IF val.k = "num" THEN <<>> ELSE <<Issue(field, 0, "invalid_type")>>
      [] zod = "ZodBoolean" ->
            IF val.k = "bool" THEN <<>> ELSE <<Issue(field, 0, "invalid_type")>>
      [] zod = "ZodDateString" ->
            IF val.k # "str" THEN <<Issue(field, 0, "invalid_type")>>
            ELSE IF DateParses(val.v) THEN <<>>
            ELSE <<Issue(field, 0, "Invalid date format")>>
      [] zod = "ZodArrayOfString" ->
            IF val.k # "arr" THEN <<Issue(field, 0, "invalid_type")>>
            ELSE LET bad == SelectSeq([i \in 1..Len(val.v) |-> i],
                                      LAMBDA i : val.v[i].k # "str")
                 IN  [j \in 1..Len(bad) |-> Issue(field, bad[j], "invalid_type")]
      [] OTHER -> <<>>

\* the issues of the value data[key] against the field's schema: the lookup
\* finds an own or an inherited property, and undefined is "Required" unless
\* the schema is optional or z.any()
ValueIssues(schema, field, val) ==
    IF val.k # "undefined" THEN TypeIssues(schema.zod, field, val)
    ELSE IF schema.optional \/ schema.zod = "ZodAny" THEN <<>>
    ELSE <<Issue(field, 0, "Required")>>

FieldIssues(schema, field, data) == ValueIssues(schema, field, Lookup(data, field))

\* the keys of the shape that the parsed object gets: those whose value is
\* not undefined or that are `in` the data, never __proto__
OutputKeys(shape, data) ==
    SelectSeq(Keys(shape),
              LAMBDA key : /\ key # T_proto
                           /\ (Lookup(data, key).k # "undefined" \/ In(data, key)))

\* dynamicSchema.parse(data): [issues, output]; it throws a ZodError when
\* issues is not empty.  The shape's keys are walked in their order; unknown
\* keys of data are stripped.
SchemaParse(shape, data) ==
    IF data.k # "map"
    THEN [issues |-> <<Issue(<<>>, 0, "invalid_type")>>, output |-> <<>>]
    ELSE [issues |-> Concat([i \in 1..Len(shape) |->
                                FieldIssues(shape[i].val, shape[i].key, data.v)]),
          output |-> [i \in 1..Len(OutputKeys(shape, data.v)) |->
                        [key |-> OutputKeys(shape, data.v)[i],
                         val |-> Lookup(data.v, OutputKeys(shape, data.v)[i])]]]

(***************************************************************************)
(* Errors, logError, and what a call returns or throws.                    *)
(***************************************************************************)
Err(name, message, issues, unexpectedFields) ==
    [name |-> name, message |-> message, issues |-> issues,
     unexpectedFields |-> unexpectedFields]
NoError == Err("", "", <<>>, <<>>)

\* what one logError(error, context) call adds to the log.  The context, and
\* the message of the error of getMetadata, are the texts of the source
\* without the name of the route they interpolate; the route of a call is
\* the variable route.
Logged(error, where) == [error |-> error, context |-> where]

\* the outcome of a call of a public function: what it returned, or the
\* error it threw
Undefined ==
    [returned |-> "undefined", metadata |-> <<>>, content |-> <<>>, value |-> <<>>,
     thrown |-> NoError]
Data(metadata, body) ==
    [returned |-> "data", metadata |-> metadata, content |-> body, value |-> <<>>,
     thrown |-> NoError]
Value(kind, value) ==
    [returned |-> kind, metadata |-> <<>>, content |-> <<>>, value |-> value,
     thrown |-> NoError]
Throws(error) ==
    [returned |-> "throws", metadata |-> <<>>, content |-> <<>>, value |-> <<>>,
     thrown |-> error]

Thrown(error, log, calls) == [ok |-> FALSE, value |-> <<>>, error |-> error, log |-> log, calls |-> calls]
Returned(value, log, calls) ==
    [ok |-> TRUE, value |-> value, error |-> NoError, log |-> log, calls |-> calls]

(***************************************************************************)
(* configSchema, loadConfig, getRoutes and getMetadata.  A config is       *)
(* [workDir, routes], a route [name, path, folder, metadata], a field      *)
(* [name, type, required, items], each part a value; a part that is        *)
(* missing is undefined.  The path of an issue is the sequence of its      *)
(* property names and indices.                                             *)
(***************************************************************************)
NotOfType(val, path) ==
    <<Issue(path, 0, IF val.k = "undefined" THEN "Required" ELSE "invalid_type")>>

\* z.string() and z.boolean()
StringIssues(val, path) == IF val.k = "str" THEN <<>> ELSE NotOfType(val, path)
BooleanIssues(val, path) == IF val.k = "bool" THEN <<>> ELSE NotOfType(val, path)

\* z.object({ type: z.string().optional() }).optional()
ItemsIssues(items, path) ==
    IF items.k = "undefined" THEN <<>>
    ELSE IF items.k # "map" THEN NotOfType(items, path)
    ELSE IF Lookup(items.v, T_type).k \in {"undefined", "str"} THEN <<>>
    ELSE NotOfType(Lookup(items.v, T_type), path \o <<"type">>)

\* z.object({ name, type, required, items }) of a metadata field
MetadataFieldIssues(field, path) ==
    StringIssues(field.name, path \o <<"name">>)
        \o StringIssues(field.type, path \o <<"type">>)
        \o BooleanIssues(field.required, path \o <<"required">>)
        \o ItemsIssues(field.items, path \o <<"items">>)

\* z.array(...) of the metadata fields of a route
MetadataIssues(metadata, path) ==
    IF metadata.k # "arr" THEN NotOfType(metadata, path)
    ELSE Concat([i \in 1..Len(metadata.v) |->
                    MetadataFieldIssues(metadata.v[i], path \o <<ToString(i - 1)>>)])

\* z.object({ name, path, folder, metadata }) of a route
RouteIssues(r, path) ==
    StringIssues(r.name, path \o <<"name">>)
        \o StringIssues(r.path, path \o <<"path">>)
        \o StringIssues(r.folder, path \o <<"folder">>)
        \o MetadataIssues(r.metadata, path \o <<"metadata">>)

\* z.array(...) of the routes
RoutesIssues(routes, path) ==
    IF routes.k # "arr" THEN NotOfType(routes, path)
    ELSE Concat([i \in 1..Len(routes.v) |->
                    RouteIssues(routes.v[i], path \o <<ToString(i - 1)>>)])

\* the issues of configSchema.safeParse(cfg)
ConfigIssues(cfg) ==
    StringIssues(cfg.workDir, <<"workDir">>) \o RoutesIssues(cfg.routes, <<"routes">>)

\* configSchema.safeParse(cfg).success
ConfigSchemaAccepts(cfg) == ConfigIssues(cfg) = <<>>

\* validatedConfig.data: the output of zod for a config that the schema
\* accepts, in which a z.object keeps the keys of its shape only, so items
\* keeps its key type and no other
ItemsOutput(items) ==
    IF items.k # "map" THEN items
    ELSE Obj(SelectSeq(items.v, LAMBDA e : e.key = T_type))
FieldOutput(field) == [field EXCEPT !.items = ItemsOutput(field.items)]
RouteOutput(r) ==
    [r EXCEPT !.metadata = Arr([j \in 1..Len(r.metadata.v) |-> FieldOutput(r.metadata.v[j])])]
ConfigOutput(cfg) ==
    [workDir |-> cfg.workDir,
     routes |-> Arr([i \in 1..Len(cfg.routes.v) |-> RouteOutput(cfg.routes.v[i])])]

\* loadConfig(config): the validated config, or it logs the ZodError and throws
loadConfig(cfg) ==
    IF ConfigSchemaAccepts(cfg)
    THEN Returned(ConfigOutput(cfg), <<>>, <<"loadConfig">>)
    ELSE Thrown(Err("Error", "Failed to load configuration.", <<>>, <<>>),
                <<Logged(Err("ZodError", "", ConfigIssues(cfg), <<>>),
                         "loading configuration")>>,
                <<"loadConfig">>)

\* the try block of getRoutes once loadConfig has returned or thrown
RoutesOf(loaded, calls) ==
    IF ~loaded.ok
    THEN Thrown(loaded.error,
                loaded.log \o <<Logged(loaded.error, "retrieving routes")>>,
                calls)
    ELSE Returned(loaded.value.routes.v, <<>>, calls)

\* getRoutes(): the routes of the config, or it logs and rethrows
getRoutes(cfg) == RoutesOf(loadConfig(cfg), <<"getRoutes", "loadConfig">>)

\* local_config.routes.find((r) => r.name === route), then its metadata
RouteMetadata(found, calls) ==
    IF found # <<>>
    THEN Returned(found[1].metadata.v, <<>>, calls)
    ELSE Thrown(Err("Error", "Route not found or missing metadata.", <<>>, <<>>),
                <<Logged(Err("Error", "Route not found or missing metadata.", <<>>, <<>>),
                         "getting metadata for route")>>,
                calls)

\* the try block of getMetadata once loadConfig has returned or thrown
FindRoute(loaded, r, calls) ==
    IF ~loaded.ok
    THEN Thrown(loaded.error,
                loaded.log \o <<Logged(loaded.error, "getting metadata for route")>>,
                calls)
    ELSE RouteMetadata(SelectSeq(loaded.value.routes.v, LAMBDA rc : rc.name = Str(r)),
                       calls)

\* getMetadata(route): the route's metadata fields, or it logs and rethrows
getMetadata(r, cfg) == FindRoute(loadConfig(cfg), r, <<"getMetadata", "loadConfig">>)

(***************************************************************************)
(* getMDXData.                                                             *)
(***************************************************************************)
DELIM == <<"-", "-", "-">>

\* the filter with its negation lost: the keys that a field declares
UnexpectedFieldsNegationLost(parsedYaml, metadataConfig) ==
    SelectSeq(Keys(parsedYaml.v),
              LAMBDA f : \E i \in 1..Len(metadataConfig) : metadataConfig[i].name = Str(f))

\* lines.length < 3 in place of lines.length !== 3
FormatOkAtLeast3(ls) == Len(ls) >= 3

\* the test on the segments of the document: lines.length !== 3 fails it
FormatOk(ls) == Len(ls) = 3

\* the keys of parsedYaml that no field of the route's metadata declares
UnexpectedFields(parsedYaml, metadataConfig) ==
    SelectSeq(Keys(parsedYaml.v),
              LAMBDA f : ~\E i \in 1..Len(metadataConfig) : metadataConfig[i].name = Str(f))

\* a catch block that swallows the error: undefined is returned, nothing logged
CatchBlockSilent(error, log, calls) ==
    [result |-> Undefined, errLog |-> log, steps |-> calls]

\* the catch block: the error is logged and undefined returned
CatchBlock(error, log, calls) ==
    [result |-> Undefined,
     errLog |-> log \o <<Logged(error, "reading MDX configuration for route")>>,
     steps |-> calls]

\* if (unexpectedFields.length > 0) throw ...; return { metadata, content }
CheckUnexpected(unexpectedFields, metadata, body, calls) ==
    IF Len(unexpectedFields) > 0
    THEN CatchBlock(Err("UnexpectedFieldError", "Unexpected metadata fields", <<>>,
                        unexpectedFields), <<>>, calls)
    ELSE [result |-> Data(metadata, body), errLog |-> <<>>, steps |-> calls]

\* the unexpected fields computed and thrown before the schema's error is
AfterSchemaParseUnexpectedFirst(parsed, parsedYaml, metadataConfig, body, calls) ==
    IF parsedYaml.k = "map" /\ Len(UnexpectedFields(parsedYaml, metadataConfig)) > 0
    THEN CatchBlock(Err("UnexpectedFieldError", "Unexpected metadata fields", <<>>,
                        UnexpectedFields(parsedYaml, metadataConfig)), <<>>,
                    calls \o <<"unexpectedFields">>)
    ELSE IF parsed.issues # <<>>
    THEN CatchBlock(Err("ZodError", "", parsed.issues, <<>>), <<>>,
                    calls \o <<"dynamicSchema.parse">>)
    ELSE CheckUnexpected(<<>>, parsed.output, body,
                         calls \o <<"dynamicSchema.parse", "unexpectedFields">>)

\* dynamicSchema.parse(parsedYaml) has run: it threw its ZodError, or the
\* unexpected fields are computed next
AfterSchemaParse(parsed, parsedYaml, metadataConfig, body, calls) ==
    IF parsed.issues # <<>>
    THEN CatchBlock(Err("ZodError", "", parsed.issues, <<>>), <<>>,
                    calls \o <<"dynamicSchema.parse">>)
    ELSE CheckUnexpected(UnexpectedFields(parsedYaml, metadataConfig), parsed.output, body,
                         calls \o <<"dynamicSchema.parse", "unexpectedFields">>)

\* the outcome of the try block with the value of its local parsedYaml
WithYaml(yaml, rest) ==
    [parsedYaml |-> yaml, result |-> rest.result, errLog |-> rest.errLog,
     steps |-> rest.steps]

\* YAML.parse(yamlContent) has run: it threw, or the schema parses its value
AfterYamlParse(yaml, metadataConfig, body, calls) ==
    IF ~yaml.ok
    THEN WithYaml(yaml, CatchBlock(Err("YAMLParseError", "", <<>>, <<>>), <<>>, calls))
    ELSE WithYaml(yaml,
             AfterSchemaParse(SchemaParse(createDynamicSchema(metadataConfig), yaml.value),
                              yaml.value, metadataConfig, body, calls))

\* getMetadata(route) has run: it threw, or the schema is built and the
\* front-matter parsed
AfterGetMetadata(meta, yamlContent, body) ==
    IF ~meta.ok
    THEN WithYaml(NotParsed, CatchBlock(meta.error, meta.log, meta.calls))
    ELSE AfterYamlParse(YAMLParse(yamlContent), meta.value, body,
                        meta.calls \o <<"createDynamicSchema", "YAML.parse">>)

\* the try block, once the document has split into three:
\* [parsedYaml, result, errLog, steps]
ValidateFrontMatter(yamlContent, body, r, cfg) ==
    AfterGetMetadata(getMetadata(r, cfg), yamlContent, body)

WithLines(ls, rest) ==
    [lines |-> ls, parsedYaml |-> rest.parsedYaml, result |-> rest.result,
     errLog |-> rest.errLog, steps |-> <<"split">> \o rest.steps]

\* getMDXData after content.split("---")
AfterSplit(ls, r, cfg) ==
    IF ~FormatOk(ls)
    THEN [lines |-> ls, parsedYaml |-> NotParsed, result |-> Undefined,
          errLog |-> <<Logged(Err("ConfigError", "Invalid config format.", <<>>, <<>>),
                              "parsing metadata for route")>>,
          steps |-> <<"split">>]
    ELSE WithLines(ls, ValidateFrontMatter(ls[2], ls[3], r, cfg))

\* getMDXData(content, route): [lines, parsedYaml, result, errLog, steps]
getMDXData(text, r, cfg) == AfterSplit(Split(text, DELIM), r, cfg)

(***************************************************************************)
(* The inputs the model draws for the public functions.                    *)
(***************************************************************************)
\* the longest text of dashes and letters drawn to exercise the splitting
MaxText == 9

FieldNames == {<<"t">>, <<"d">>}
FieldTypes == {T_string, T_number, T_boolean, T_date, T_array, T_json}

\* a metadata field of the config, without items
Field(name, type, required) ==
    [name |-> Str(name), type |-> Str(type),
     required |-> Bool(IF required THEN T_true ELSE T_false), items |-> UndefinedValue]

\* field t is drawn with every declared type ("json" is none the switch
\* knows), field d with two of them
Fields ==
    {Field(<<"t">>, type, required) : type \in FieldTypes, required \in BOOLEAN}
    \cup {Field(<<"d">>, type, required) : type \in {T_string, T_json}, required \in BOOLEAN}

\* the metadata of a route: fields of distinct names (ExtractMetadataType keys
\* the metadata type of a route by field name)
FieldLists ==
    {fs \in SeqUpTo(Fields, MaxFields) :
        \A i, j \in 1..Len(fs) : i # j => fs[i].name # fs[j].name}

\* the value texts of the front-matter lines: s, 2020-01-31, 1, 0x1F, .5,
\* True, an empty value, [a], [a, 1], 1/2/2020 (a date in the legacy format),
\* it's # c (a quote inside a plain scalar, before a comment) and
\* Sep 13 275760 (the last day of the time values, at 00:00 local time)
ValueTexts ==
    {<<"s">>, <<"2", "0", "2", "0", "-", "0", "1", "-", "3", "1">>, <<"1">>, <<"0", "x", "1", "F">>, <<".", "5">>, T_True,
     <<>>, <<"[", "a", "]">>, <<"[", "a", ",", " ", "1", "]">>,
     <<"1", "/", "2", "/", "2", "0", "2", "0">>, <<"i", "t", "'", "s", " ", "#", " ", "c">>,
     <<"S", "e", "p", " ", "1", "3", " ", "2", "7", "5", "7", "6", "0">>}

Absent == <<"absent">>

\* the local time zones of the calls: UTC, and twelve hours behind it
LocalOffsets == {0, -43200}

\* the line `key: text`, or nothing when the key is absent
YamlLine(key, text) ==
    IF text = Absent THEN <<>>
    ELSE IF text = <<>> THEN key \o <<":", "\n">>
    ELSE key \o <<":", " ">> \o text \o <<"\n">>

Body == <<"\n", "#", " ", "H", "i", "\n", "-", " ", "a", "\n">>

\* the document ---\n<t line><d line><x line>---<body>
Document(tText, dText, xText) ==
    DELIM \o <<"\n">> \o YamlLine(<<"t">>, tText) \o YamlLine(<<"d">>, dText)
          \o YamlLine(<<"x">>, xText) \o DELIM \o Body

Documents ==
    {Document(a, b, c) : a \in ValueTexts \cup {Absent},
                         b \in {Absent, <<"s">>, <<"1">>},
                         c \in {Absent, <<"s">>}}

\* texts of dashes and letters, for the splitting
SplitTexts == SeqUpTo({"-", "s"}, MaxText)

\* the document ---\n<front-matter>---\nb
DocumentOf(frontMatter) == DELIM \o <<"\n">> \o frontMatter \o DELIM \o <<"\n", "b">>

\* documents with a preamble, a fourth dash, a delimiter inside a value, a
\* delimiter in the body, and one delimiter only
BrokenDocuments ==
    {<<"s", "-", "-", "-", "\n", "t", ":", " ", "s", "\n", "-", "-", "-", "\n", "b">>,
     <<"-", "-", "-", "\n", "t", ":", " ", "s", "\n", "-", "-", "-", "-", "\n", "b">>,
     <<"-", "-", "-", "\n", "t", ":", " ", "a", "-", "-", "-", "b", "\n", "-", "-", "-", "\n", "c">>,
     <<"-", "-", "-", "\n", "t", ":", " ", "s", "\n", "-", "-", "-", "\n", "b", "\n", "-", "-", "-", "\n", "c">>,
     <<"-", "-", "-", "\n", "t", ":", " ", "s", "\n">>}

\* front-matters that are a scalar, a scalar of two lines, a flow sequence,
\* an empty mapping, a mapping with a repeated key, a block sequence under a
\* key, at its indentation and deeper, a nested mapping, a value continued
\* on the next line, a quoted number, a comment, and a line without a key
\* after one with a key
FrontMatters ==
    {<<"s", "\n">>,
     <<"s", "\n", "u", "\n">>,
     <<"[", "a", "]", "\n">>,
     <<"{", "}", "\n">>,
     <<"t", ":", " ", "s", "\n", "t", ":", " ", "s", "\n">>,
     <<"t", ":", "\n", "-", " ", "a", "\n", "-", " ", "b", "\n">>,
     <<"t", ":", "\n", " ", " ", "-", " ", "a", "\n", " ", " ", "-", " ", "1", "\n">>,
     <<"t", ":", "\n", " ", " ", "a", ":", " ", "1", "\n">>,
     <<"t", ":", " ", "s", "\n", " ", " ", "u", "\n">>,
     <<"t", ":", " ", "\"", "1", "\"", "\n">>,
     <<"t", ":", " ", "s", " ", "#", " ", "c", "\n">>,
     <<"t", ":", " ", "s", "\n", "u", "\n">>}

OddDocuments == BrokenDocuments \cup {DocumentOf(f) : f \in FrontMatters}

\* fields whose names are array indices, and names that Object.prototype has
IndexFields ==
    <<Field(<<"b">>, T_string, TRUE), Field(<<"1", "0">>, T_string, TRUE),
      Field(<<"2">>, T_number, FALSE)>>
InheritedFieldLists ==
    {<<Field(T_toString, type, required)>> : type \in {T_string, T_json}, required \in BOOLEAN}
    \cup {<<Field(T_proto, T_string, TRUE)>>}

\* front-matters with index keys out of order, with an undeclared index key,
\* with the inherited names as keys, and without any key
KeyFrontMatters ==
    {<<"b", ":", " ", "s", "\n", "1", "0", ":", " ", "s", "\n", "2", ":", " ", "1", "\n">>,
     <<"b", ":", " ", "1", "\n", "1", "0", ":", " ", "1", "\n">>,
     <<"x", ":", " ", "s", "\n", "b", ":", " ", "s", "\n", "1", "0", ":", " ", "s", "\n", "1", ":", " ", "s", "\n">>,
     <<"t", "o", "S", "t", "r", "i", "n", "g", ":", " ", "s", "\n">>,
     <<"_", "_", "p", "r", "o", "t", "o", "_", "_", ":", " ", "1", "\n">>,
     <<"_", "_", "p", "r", "o", "t", "o", "_", "_", ":", " ", "s", "\n">>,
     <<"{", "}", "\n">>}

WorkDir == Str(<<"/", "m">>)
RouteOf(name, fs) ==
    [name |-> Str(name), path |-> Str(<<"/", "b">>), folder |-> Str(<<"b">>),
     metadata |-> Arr(fs)]
ConfigOf(workDir, fs) == [workDir |-> workDir, routes |-> Arr(<<RouteOf(T_blog, fs)>>)]

OneField == <<Field(<<"t">>, T_string, TRUE)>>
NoRequired == <<Field(<<"t">>, T_string, FALSE)>>
\* an array field with its items, which hold a key x that configSchema does
\* not know
ArrayField ==
    <<[Field(<<"t">>, T_array, TRUE) EXCEPT
          !.items = Obj(<<[key |-> T_type, val |-> Str(T_string)],
                          [key |-> <<"x">>, val |-> Num(<<"1">>)]>>)]>>

\* configs that configSchema rejects: workDir null, a route without folder,
\* no routes, a field whose required is a string, items that is a string
BadConfigs ==
    {ConfigOf(Null, OneField),
     [ConfigOf(WorkDir, OneField) EXCEPT
         !.routes = Arr(<<[RouteOf(T_blog, OneField) EXCEPT !.folder = UndefinedValue]>>)],
     [ConfigOf(WorkDir, OneField) EXCEPT !.routes = UndefinedValue],
     ConfigOf(WorkDir, <<[OneField[1] EXCEPT !.required = Str(T_true)]>>),
     ConfigOf(WorkDir, <<[OneField[1] EXCEPT !.items = Str(T_string)]>>)}

\* the inputs of a call: every field list with every document, under a
\* well-formed config and a known route; the split texts under one field list;
\* the odd documents under three field lists and under the configs that the
\* schema rejects, with an unknown route too; the fields with index names and
\* inherited names with the front-matters of such keys
MDXInput(cfg, doc, r) ==
    /\ config = cfg
    /\ content = doc
    /\ route = r

(***************************************************************************)
(* The specification of the calls of getMDXData, getRoutes, getMetadata.   *)
(***************************************************************************)
HtmlIdle ==
    /\ markdown = <<>>
    /\ mdLines = <<>>
    /\ idx = 0
    /\ html = <<>>
    /\ elements = <<>>
    /\ listItemIndex = 0
    /\ listStack = <<>>
    /\ hpc = "idle"

InitMDX ==
    /\ \/ \E fs \in FieldLists, doc \in Documents :
             MDXInput(ConfigOf(WorkDir, fs), doc, T_blog)
       \/ \E doc \in SplitTexts :
             MDXInput(ConfigOf(WorkDir, OneField), doc, T_blog)
       \/ \E cfg \in {ConfigOf(WorkDir, fs) : fs \in {OneField, NoRequired, ArrayField}}
                        \cup BadConfigs,
             r \in {T_blog, T_docs},
             doc \in OddDocuments \cup {Document(<<"s">>, Absent, Absent)} :
             MDXInput(cfg, doc, r)
       \/ \E fs \in {IndexFields} \cup InheritedFieldLists, f \in KeyFrontMatters :
             MDXInput(ConfigOf(WorkDir, fs), DocumentOf(f), T_blog)
    /\ lines = <<>>
    /\ yamlParsed = NotParsed
    /\ steps = <<>>
    /\ errLog = <<>>
    /\ result = Undefined
    /\ pc = "ready"
    /\ timeZone \in LocalOffsets
    /\ HtmlIdle

\* the state a call of getMDXData leaves
Completes(run) ==
    /\ lines' = run.lines
    /\ yamlParsed' = run.parsedYaml
    /\ steps' = run.steps
    /\ errLog' = run.errLog
    /\ result' = run.result

\* the state a call of getRoutes or getMetadata leaves: what it returned, or
\* the error it threw, and what it logged
Answers(run, kind) ==
    /\ steps' = run.calls
    /\ errLog' = run.log
    /\ result' = IF run.ok THEN Value(kind, run.value) ELSE Throws(run.error)

\* one call getMDXData(content, route)
GetMDXData ==
    /\ pc = "ready"
    /\ Completes(getMDXData(content, route, config))
    /\ pc' = "done"
    /\ UNCHANGED <<config, content, route, timeZone, htmlVars>>

\* one call getRoutes()
GetRoutes ==
    /\ pc = "ready"
    /\ Answers(getRoutes(config), "routes")
    /\ pc' = "routes"
    /\ UNCHANGED <<config, content, route, lines, yamlParsed, timeZone, htmlVars>>

\* one call getMetadata(route)
GetMetadata ==
    /\ pc = "ready"
    /\ Answers(getMetadata(route, config), "metadata")
    /\ pc' = "metadata"
    /\ UNCHANGED <<config, content, route, lines, yamlParsed, timeZone, htmlVars>>

NextMDX == GetMDXData \/ GetRoutes \/ GetMetadata

SpecMDX == InitMDX /\ [][NextMDX]_vars

(***************************************************************************)
(* markdownToHTML.  html is the sequence of the pieces of the string, each  *)
(* [tag, level, text]: "<ul>", "</ul>", "<ol>", "</ol>" (the list tags),   *)
(* "li", "p", and "h" with its level.  Appending "" appends no piece.      *)
(*                                                                         *)
(* parseLine appends to html itself (closeLists(), the "<ul>" and "<ol>"   *)
(* of a list that opens) and returns the piece of the line.  Its caller is *)
(* `html += parseLine(line)`: the compound assignment takes the value of   *)
(* html before it calls parseLine and assigns that value plus the piece    *)
(* returned, so what parseLine appended meanwhile is overwritten.  Only    *)
(* the closeLists() after the loop appends to the html that is returned.   *)
(***************************************************************************)
Piece(tag, level, text) == [tag |-> tag, level |-> level, text |-> text]
OpenTag(listType) == Piece(IF listType = "ul" THEN "<ul>" ELSE "<ol>", 0, <<>>)
CloseTag(listType) == Piece(IF listType = "ul" THEN "</ul>" ELSE "</ol>", 0, <<>>)

\* closeLists() whose loop never runs: nothing is appended
closeListsSkipped(stack) == <<>>

\* closeLists(): what the while loop appends to html, popping the stack from
\* its top (the end of the sequence) until it is empty
RECURSIVE closeLists(_)
closeLists(stack) ==
    IF stack = <<>> THEN <<>>
    ELSE <<CloseTag(stack[Len(stack)])>> \o closeLists(SubSeq(stack, 1, Len(stack) - 1))

\* the length of the longest prefix of t made of characters of S
RECURSIVE RunLength(_, _)
RunLength(t, S) ==
    IF t # <<>> /\ t[1] \in S THEN 1 + RunLength(Tail(t), S) ELSE 0

\* trimmedLine.match(/^#+/): the length of the match, 0 when there is none
HeaderMatch(t) == RunLength(t, {"#"})

\* /^\- /.test(trimmedLine)
IsUnordered(t) == Len(t) >= 2 /\ t[1] = "-" /\ t[2] = " "

\* /^\d+\. /.test(trimmedLine)
IsOrdered(t) ==
    LET n == RunLength(t, Digits)
    IN  n >= 1 /\ Len(t) >= n + 2 /\ t[n + 1] = "." /\ t[n + 2] = " "

\* trimmedLine.indexOf("."), 0-based, for a line that has a '.'
IndexOfDot(t) == IndexOf(t, <<".">>, 1) - 1

\* the top of the stack, "none" for listStack[-1] of an empty stack
Top(stack) == IF stack = <<>> THEN "none" ELSE stack[Len(stack)]

\* a list line that opens its list inside the list that is open
ListLineNests(stack, listType, text) ==
    IF Top(stack) # listType
    THEN [appended |-> <<OpenTag(listType)>>,
          returned |-> <<Piece("li", 0, text)>>,
          stack |-> Append(stack, listType)]
    ELSE [appended |-> <<>>, returned |-> <<Piece("li", 0, text)>>, stack |-> stack]

\* a list line of type listType with the item text: the list is opened, after
\* closing what is open, unless the top of the stack is already listType
ListLine(stack, listType, text) ==
    IF Top(stack) # listType
    THEN [appended |-> closeLists(stack) \o <<OpenTag(listType)>>,
          returned |-> <<Piece("li", 0, text)>>,
          stack |-> <<listType>>]
    ELSE [appended |-> <<>>, returned |-> <<Piece("li", 0, text)>>, stack |-> stack]

\* parseLine that tests the trimmed line and returns the paragraph of the line
parseLineParagraphOfLine(line, stack) ==
    LET trimmedLine == Trim(line)
        headerLevel == HeaderMatch(trimmedLine)
    IN  IF headerLevel > 0
        THEN [appended |-> closeLists(stack),
              returned |-> <<Piece("h", headerLevel, Slice(trimmedLine, headerLevel + 1))>>,
              stack |-> <<>>]
        ELSE IF IsUnordered(trimmedLine)
        THEN ListLine(stack, "ul", Slice(trimmedLine, 2))
        ELSE IF IsOrdered(trimmedLine)
        THEN ListLine(stack, "ol", Slice(trimmedLine, IndexOfDot(trimmedLine) + 2))
        ELSE IF trimmedLine = <<>>
        THEN [appended |-> closeLists(stack), returned |-> <<>>, stack |-> <<>>]
        ELSE [appended |-> closeLists(stack),
              returned |-> <<Piece("p", 0, line)>>,
              stack |-> <<>>]

\* parseLine whose last branch returns "" for a line it does not recognize
parseLineDropsParagraph(line, stack) ==
    LET trimmedLine == Trim(line)
        headerLevel == HeaderMatch(trimmedLine)
    IN  IF headerLevel > 0
        THEN [appended |-> closeLists(stack),
              returned |-> <<Piece("h", headerLevel, Slice(trimmedLine, headerLevel + 1))>>,
              stack |-> <<>>]
        ELSE IF IsUnordered(trimmedLine)
        THEN ListLine(stack, "ul", Slice(trimmedLine, 2))
        ELSE IF IsOrdered(trimmedLine)
        THEN ListLine(stack, "ol", Slice(trimmedLine, IndexOfDot(trimmedLine) + 2))
        ELSE [appended |-> closeLists(stack), returned |-> <<>>, stack |-> <<>>]

\* parseLine(line): what it appends to html itself while it runs (appended),
\* what it returns (returned), and the stack it leaves
parseLine(line, stack) ==
    LET trimmedLine == Trim(line)
        headerLevel == HeaderMatch(trimmedLine)
    IN  IF headerLevel > 0
        THEN [appended |-> closeLists(stack),
              returned |-> <<Piece("h", headerLevel, Slice(trimmedLine, headerLevel + 1))>>,
              stack |-> <<>>]
        ELSE IF IsUnordered(trimmedLine)
        THEN ListLine(stack, "ul", Slice(trimmedLine, 2))
        ELSE IF IsOrdered(trimmedLine)
        THEN ListLine(stack, "ol", Slice(trimmedLine, IndexOfDot(trimmedLine) + 2))
        ELSE IF trimmedLine = <<>>
        THEN [appended |-> closeLists(stack), returned |-> <<>>, stack |-> <<>>]
        ELSE [appended |-> closeLists(stack),
              returned |-> <<Piece("p", 0, trimmedLine)>>,
              stack |-> <<>>]

(***************************************************************************)
(* The bodies the model draws: up to MaxLines lines joined by "\n".        *)
(***************************************************************************)
\* MaxLevel '#' characters
RECURSIVE Hashes(_)
Hashes(n) == IF n = 0 THEN <<>> ELSE <<"#">> \o Hashes(n - 1)

\* a blank line, a paragraph with a space before it and a no-break space
\* after it, two unordered items, an ordered item, and headings of level 1
\* and MaxLevel
LineSet ==
    {<<>>,
     <<" ", "c", "U+00A0">>,
     <<"-", " ", "a">>,
     <<"-", " ", "b">>,
     <<"1", ".", " ", "c">>,
     <<"#", " ", "T">>,
     Hashes(MaxLevel) \o <<" ", "U">>}

Bodies == {Join(ls, <<"\n">>) : ls \in UNION {[1..k -> LineSet] : k \in 1..MaxLines}}

(***************************************************************************)
(* The specification of a markdownToHTML call.                             *)
(***************************************************************************)
MdxIdle ==
    /\ config = ConfigOf(WorkDir, <<>>)
    /\ content = <<>>
    /\ route = T_blog
    /\ lines = <<>>
    /\ yamlParsed = NotParsed
    /\ steps = <<>>
    /\ errLog = <<>>
    /\ result = Undefined
    /\ pc = "ready"
    /\ timeZone = 0

InitHTML ==
    /\ markdown \in Bodies
    /\ mdLines = <<>>
    /\ idx = 0
    /\ html = <<>>
    /\ elements = <<>>
    /\ listItemIndex = 0
    /\ listStack = <<>>
    /\ hpc = "idle"
    /\ MdxIdle

\* markdownToHTML(markdown) is entered: the text is split into lines
MarkdownToHTML ==
    /\ hpc = "idle"
    /\ mdLines' = Split(markdown, <<"\n">>)
    /\ idx' = 0
    /\ html' = <<>>
    /\ listStack' = <<>>
    /\ hpc' = "parsing"
    /\ UNCHANGED <<markdown, elements, listItemIndex, mdxVars>>

\* one turn of lines.forEach: html += parseLine(line).  The new html is the
\* html read before the call and the piece returned; step.appended, which
\* parseLine added to html during the call, is overwritten by the assignment
ParseLine ==
    /\ hpc = "parsing"
    /\ idx < Len(mdLines)
    /\ LET step == parseLine(mdLines[idx + 1], listStack)
       IN  /\ html' = html \o step.returned
           /\ listStack' = step.stack
    /\ idx' = idx + 1
    /\ UNCHANGED <<markdown, mdLines, hpc, elements, listItemIndex, mdxVars>>

\* after the last line: closeLists() and return html
ReturnHTML ==
    /\ hpc = "parsing"
    /\ idx = Len(mdLines)
    /\ html' = html \o closeLists(listStack)
    /\ listStack' = <<>>
    /\ hpc' = "returned"
    /\ UNCHANGED <<markdown, mdLines, idx, elements, listItemIndex, mdxVars>>

NextHTML == MarkdownToHTML \/ ParseLine \/ ReturnHTML

SpecHTML == InitHTML /\ [][NextHTML]_vars

(***************************************************************************)
(* markdownToJSX (the parser of the earlier source file).  An element is   *)
(* [type, key, children]: type the styled component ("h1", "h2", "h3",     *)
(* "ul", "ol", "li", "p"), key [prefix, n] for the key `${prefix}-${n}`    *)
(* (prefix "index" for the bare line index), children the text.            *)
(***************************************************************************)
Key(prefix, n) == [prefix |-> prefix, n |-> n]
NoKey == Key("", 0)
Element(type, key, children) == [type |-> type, key |-> key, children |-> children]

\* closeLists(): the elements the while loop pushes, each keyed by the length
\* of elements when it is pushed
RECURSIVE closeListsJSX(_, _)
closeListsJSX(stack, els) ==
    IF stack = <<>> THEN els
    ELSE closeListsJSX(SubSeq(stack, 1, Len(stack) - 1),
                       Append(els, Element(stack[Len(stack)], Key("list", Len(els)), <<>>)))

\* a list line: the open list is closed unless it is already of listType;
\* nothing is pushed for the list that opens
ListLineJSX(stack, els, listType, text) ==
    IF stack = <<>> \/ Top(stack) # listType
    THEN [elements |-> closeListsJSX(stack, els),
          returned |-> <<Element("li", NoKey, text)>>,
          stack |-> <<listType>>]
    ELSE [elements |-> els, returned |-> <<Element("li", NoKey, text)>>, stack |-> stack]

\* the lines after the header branch: list items, blank, paragraph
AfterHeaderJSX(trimmedLine, stack, els) ==
    IF IsUnordered(trimmedLine)
    THEN ListLineJSX(stack, els, "ul", Slice(trimmedLine, 2))
    ELSE IF IsOrdered(trimmedLine)
    THEN ListLineJSX(stack, els, "ol", Slice(trimmedLine, IndexOfDot(trimmedLine) + 2))
    ELSE IF trimmedLine = <<>>
    THEN [elements |-> closeListsJSX(stack, els), returned |-> <<>>, stack |-> <<>>]
    ELSE [elements |-> closeListsJSX(stack, els),
          returned |-> <<Element("p", NoKey, trimmedLine)>>,
          stack |-> <<>>]

\* parseLine(line): elements after what it pushes itself, the element it
\* returns (none for null), and the stack it leaves.  A header of level 1 to
\* 3 returns h1, h2 or h3; a longer run of '#' closes the lists and falls
\* through to the branches below.
parseLineJSX(line, stack, els) ==
    LET trimmedLine == Trim(line)
        headerLevel == HeaderMatch(trimmedLine)
        closed == closeListsJSX(stack, els)
        hType == CASE headerLevel = 1 -> "h1" [] headerLevel = 2 -> "h2" [] OTHER -> "h3"
    IN  IF headerLevel \in {1, 2, 3}
        THEN [elements |-> closed,
              returned |-> <<Element(hType, Key("header", Len(closed)),
                                     Slice(trimmedLine, headerLevel + 1))>>,
              stack |-> <<>>]
        ELSE IF headerLevel > 0
        THEN AfterHeaderJSX(trimmedLine, <<>>, closed)
        ELSE AfterHeaderJSX(trimmedLine, stack, els)

InitJSX == InitHTML

\* markdownToJSX(markdown) is entered: the text is split into lines
MarkdownToJSX ==
    /\ hpc = "idle"
    /\ mdLines' = Split(markdown, <<"\n">>)
    /\ idx' = 0
    /\ elements' = <<>>
    /\ listItemIndex' = 0
    /\ listStack' = <<>>
    /\ hpc' = "parsingJSX"
    /\ UNCHANGED <<markdown, html, mdxVars>>

\* one turn of the forEach that keys a returned li, too, by the line index
ParseLineJSXKeyedByIndex ==
    /\ hpc = "parsingJSX"
    /\ idx < Len(mdLines)
    /\ LET step == parseLineJSX(mdLines[idx + 1], listStack, elements)
           element == step.returned[1]
       IN  /\ listStack' = step.stack
           /\ IF step.returned = <<>>
              THEN /\ elements' = step.elements
                   /\ listItemIndex' = listItemIndex
              ELSE IF element.type = "li"
              THEN /\ elements' = Append(step.elements,
                                         [element EXCEPT !.key = Key("list-item", idx)])
                   /\ listItemIndex' = listItemIndex + 1
              ELSE /\ elements' = Append(step.elements,
                                         [element EXCEPT !.key = Key("index", idx)])
                   /\ listItemIndex' = listItemIndex
    /\ idx' = idx + 1
    /\ UNCHANGED <<markdown, mdLines, hpc, html, mdxVars>>

\* one turn of lines.forEach((line, index) => ...): a returned li is pushed
\* with the key list-item-<listItemIndex++>, another element with key index
ParseLineJSX ==
    /\ hpc = "parsingJSX"
    /\ idx < Len(mdLines)
    /\ LET step == parseLineJSX(mdLines[idx + 1], listStack, elements)
           element == step.returned[1]
       IN  /\ listStack' = step.stack
           /\ IF step.returned = <<>>
              THEN /\ elements' = step.elements
                   /\ listItemIndex' = listItemIndex
              ELSE IF element.type = "li"
              THEN /\ elements' = Append(step.elements,
                                         [element EXCEPT !.key = Key("list-item", listItemIndex)])
                   /\ listItemIndex' = listItemIndex + 1
              ELSE /\ elements' = Append(step.elements,
                                         [element EXCEPT !.key = Key("index", idx)])
                   /\ listItemIndex' = listItemIndex
    /\ idx' = idx + 1
    /\ UNCHANGED <<markdown, mdLines, hpc, html, mdxVars>>

\* after the last line: closeLists() and return elements
ReturnJSX ==
    /\ hpc = "parsingJSX"
    /\ idx = Len(mdLines)
    /\ elements' = closeListsJSX(listStack, elements)
    /\ listStack' = <<>>
    /\ hpc' = "returnedJSX"
    /\ UNCHANGED <<markdown, mdLines, idx, html, listItemIndex, mdxVars>>

NextJSX == MarkdownToJSX \/ ParseLineJSX \/ ReturnJSX

SpecJSX == InitJSX /\ [][NextJSX]_vars

(***************************************************************************)
(* Properties of getMDXData (checked under SpecMDX).                       *)
(***************************************************************************)
\* the positions of the delimiter in t, found left to right without overlap
RECURSIVE Occurrences(_, _)
Occurrences(t, from) ==
    LET q == IndexOf(t, DELIM, from)
    IN  IF q = 0 THEN <<>> ELSE <<q>> \o Occurrences(t, q + Len(DELIM))

Done == pc = "done"
FormatErrorReported ==
    /\ Len(errLog) = 1
    /\ errLog[1].error.name = "ConfigError"
LastError == errLog[Len(errLog)].error

\* a field of the config as the interface MetadataField types it
FieldView(field) ==
    [name |-> field.name.v, type |-> field.type.v, required |-> field.required = Bool(T_true)]
Declared ==
    [i \in 1..Len(config.routes.v[1].metadata.v) |-> FieldView(config.routes.v[1].metadata.v[i])]
Parsed == yamlParsed.value

\* the front-matter of the call was parsed into a mapping and handed to the
\* schema of the route's fields
MappingCase ==
    /\ Done
    /\ Len(lines) = 3
    /\ ConfigSchemaAccepts(config)
    /\ route = T_blog
    /\ yamlParsed.ok
    /\ Parsed.k = "map"
DeclaredNames == {Declared[i].name : i \in 1..Len(Declared)}
MappingKeys == {Parsed.v[i].key : i \in 1..Len(Parsed.v)}
FieldNamed(name) == Declared[CHOOSE i \in 1..Len(Declared) : Declared[i].name = name]

\* the table of kinds: whether a value has the shape its declared type accepts
Conforms(type, val) ==
    CASE type = T_string -> val.k = "str"
      [] type = T_number -> val.k = "num"
      [] type = T_boolean -> val.k = "bool"
      [] type = T_date -> val.k = "str" /\ DateParses(val.v)
      [] type = T_array -> val.k = "arr" /\ \A i \in 1..Len(val.v) : val.v[i].k = "str"
      [] OTHER -> TRUE

\* C1: a document is accepted by the splitting step exactly when the
\* delimiter occurs twice in it; then the front-matter is the text between
\* the two occurrences and the body the text after the second, and a returned
\* result carries that body; otherwise a format error is reported, nothing
\* else is consulted and nothing is returned.
C1_Splitting ==
    Done =>
        LET occ == Occurrences(content, 1)
        IN  /\ (Len(occ) = 2) <=> ~FormatErrorReported
            /\ Len(occ) = 2 =>
                  /\ lines[2] = SubSeq(content, occ[1] + 3, occ[2] - 1)
                  /\ lines[3] = SubSeq(content, occ[2] + 3, Len(content))
                  /\ result.returned = "data" => result.content = lines[3]
            /\ Len(occ) # 2 =>
                  /\ result = Undefined
                  /\ steps = <<"split">>

\* a document with four dashes in a row was accepted and its data returned
C1_Witness ==
    /\ Done
    /\ Len(Occurrences(content, 1)) = 2
    /\ \E i \in 1..Len(content) : MatchAt(content, <<"-", "-", "-", "-">>, i)
    /\ result.returned = "data"
    /\ result.content # <<>>

Accepts(field, val) ==
    IF val.k = "undefined"
    THEN ~field.required \/ field.type \notin FieldTypes \ {T_json}
    ELSE Conforms(field.type, val)

\* the declared fields the schema rejects.  The schema reads the value of
\* a field as a property of the mapping, own or inherited, and has no key
\* for a field named __proto__.
FailingFields ==
    {Declared[i].name : i \in
        {j \in 1..Len(Declared) :
            /\ Declared[j].name # T_proto
            /\ ~Accepts(Declared[j], Lookup(Parsed.v, Declared[j].name))}}

\* whether the mapping passes the schema
PassesSchema == FailingFields = {}

C3_FailClosed ==
    Done =>
        \/ result = Undefined
        \/ /\ result.returned = "data"
           /\ MappingCase
           /\ \A i \in 1..Len(result.metadata) :
                 /\ result.metadata[i].key \in DeclaredNames
                 /\ Conforms(FieldNamed(result.metadata[i].key).type, result.metadata[i].val)
           /\ MappingKeys \subseteq DeclaredNames
           /\ \A key \in MappingKeys : Conforms(FieldNamed(key).type, Get(Parsed.v, key))

\* the issues of the ZodError the call reported, none when it reported none
ReportedIssues ==
    IF errLog # <<>> /\ LastError.name = "ZodError" THEN LastError.issues ELSE <<>>
Rejected(key) == \E j \in 1..Len(ReportedIssues) : ReportedIssues[j].field = key
RequiredMissing == {i \in 1..Len(Declared) : Declared[i].required /\ Declared[i].name \notin MappingKeys}
OptionalAbsent == {i \in 1..Len(Declared) : ~Declared[i].required /\ Declared[i].name \notin MappingKeys}

\* C4 as stated: when a required field, of any declared type, has no entry in
\* the mapping, a validation error naming it is reported and no metadata is
\* returned.
C4_RequiredMissingFails ==
    (MappingCase /\ RequiredMissing # {}) =>
        /\ result = Undefined
        /\ \A i \in RequiredMissing : Rejected(Declared[i].name)

\* C5 as stated: a field that is not required and absent from the mapping is never the
\* subject of a validation issue and has no entry in the returned metadata;
\* when nothing else is wrong (no undeclared key, every required field
\* present, every present value conforming) the call returns its data.
C5_OptionalAbsent ==
    (MappingCase /\ OptionalAbsent # {}) =>
        /\ \A i \in OptionalAbsent :
              /\ ~Rejected(Declared[i].name)
              /\ result.returned = "data"
                    => ~HasKey(result.metadata, Declared[i].name)
        /\ ( /\ MappingKeys \subseteq DeclaredNames
             /\ RequiredMissing = {}
             /\ \A key \in MappingKeys : Conforms(FieldNamed(key).type, Get(Parsed.v, key)) )
              => result.returned = "data"

\* C6 as stated: a mapping whose keys are exactly the declared names and whose values
\* conform to the declared kinds validates, and the metadata returned has
\* exactly those keys with the values of the mapping.
C6_RoundTrip ==
    ( /\ MappingCase
      /\ MappingKeys = DeclaredNames
      /\ \A key \in MappingKeys : Conforms(FieldNamed(key).type, Get(Parsed.v, key)) )
        => /\ result.returned = "data"
           /\ Len(result.metadata) = Len(Parsed.v)
           /\ Range(result.metadata) = Range(Parsed.v)

\* C7 as stated: for every key of the mapping that a field declares, the validator
\* reports an issue on the key exactly when the value does not conform to the
\* field's declared kind by the table of kinds (an unrecognized type accepts
\* every value).
C7_KindTable ==
    MappingCase =>
        \A key \in MappingKeys \cap DeclaredNames :
            Rejected(key) <=> ~Conforms(FieldNamed(key).type, Get(Parsed.v, key))

(***************************************************************************)
(* Properties of the parsers (checked under SpecHTML and SpecJSX).         *)
(***************************************************************************)
\* the class of a line, in the order the branches of parseLine test it
LineKind(l) ==
    LET t == Trim(l)
    IN  IF HeaderMatch(t) > 0 THEN "h"
        ELSE IF IsUnordered(t) THEN "ul"
        ELSE IF IsOrdered(t) THEN "ol"
        ELSE IF t = <<>> THEN "blank"
        ELSE "p"

ReturnedHTML == hpc = "returned"
ReturnedJSX == hpc = "returnedJSX"
CountTag(tag) == Cardinality({p \in 1..Len(html) : html[p].tag = tag})

\* the maximal runs <<i, j>> of consecutive '- ' lines
UlRuns ==
    {r \in (1..Len(mdLines)) \X (1..Len(mdLines)) :
        /\ r[1] <= r[2]
        /\ \A k \in r[1]..r[2] : LineKind(mdLines[k]) = "ul"
        /\ r[1] > 1 => LineKind(mdLines[r[1] - 1]) # "ul"
        /\ r[2] < Len(mdLines) => LineKind(mdLines[r[2] + 1]) # "ul"}

\* C8: in the output of markdownToHTML every maximal run of n '- ' lines
\* appears as one <ul>, the n items in line order, one </ul>, and no other
\* <ul> or </ul> is emitted; when a '1. ' line follows the run, the </ul> is
\* followed by <ol> and the first ordered item.
C8_ListFlattening ==
    ReturnedHTML =>
        /\ CountTag("<ul>") = Cardinality(UlRuns)
        /\ CountTag("</ul>") = Cardinality(UlRuns)
        /\ \A r \in UlRuns :
              LET n == r[2] - r[1] + 1
              IN  \E p \in 1..Len(html) :
                     /\ p + n + 1 <= Len(html)
                     /\ html[p] = OpenTag("ul")
                     /\ \A k \in 1..n :
                           html[p + k] = Piece("li", 0, Slice(Trim(mdLines[r[1] + k - 1]), 2))
                     /\ html[p + n + 1] = CloseTag("ul")
                     /\ (r[2] < Len(mdLines) /\ LineKind(mdLines[r[2] + 1]) = "ol") =>
                           /\ p + n + 3 <= Len(html)
                           /\ html[p + n + 2] = OpenTag("ol")
                           /\ html[p + n + 3].tag = "li"

\* the node kinds of the two outputs: a list open, a list close, a list item
IsOpen(node) == node.tag \in {"<ul>", "<ol>"}
IsClose(node) == node.tag \in {"</ul>", "</ol>"}
Closes(open, close) ==
    \/ open.tag = "<ul>" /\ close.tag = "</ul>"
    \/ open.tag = "<ol>" /\ close.tag = "</ol>"

\* a sequence of pieces is well-bracketed: every list open is followed by a
\* close of its kind with only items between them, every close follows such
\* an open, and every item lies between an open and its close
WellBracketed(out) ==
    /\ \A p \in 1..Len(out) : IsOpen(out[p]) =>
          \E q \in (p + 1)..Len(out) :
             /\ Closes(out[p], out[q])
             /\ \A r \in (p + 1)..(q - 1) : out[r].tag = "li"
    /\ \A q \in 1..Len(out) : IsClose(out[q]) =>
          \E p \in 1..(q - 1) :
             /\ Closes(out[p], out[q])
             /\ \A r \in (p + 1)..(q - 1) : out[r].tag = "li"
    /\ \A i \in 1..Len(out) : out[i].tag = "li" =>
          \E p \in 1..(i - 1), q \in (i + 1)..Len(out) :
             /\ Closes(out[p], out[q])
             /\ \A r \in (p + 1)..(q - 1) : out[r].tag = "li"

\* C9, for markdownToHTML: the html returned is well-bracketed.
C9_WellBracketedHTML == ReturnedHTML => WellBracketed(html)

\* C9, for markdownToJSX: in the elements returned, every list item lies
\* between the element that opens its list and the element that closes it.
\* markdownToJSX pushes one ul or ol element per list, when the list closes.
C9_WellBracketedJSX ==
    ReturnedJSX =>
        \A i \in 1..Len(elements) : elements[i].type = "li" =>
            \E p \in 1..(i - 1), q \in (i + 1)..Len(elements) :
               /\ elements[p].type \in {"ul", "ol"}
               /\ elements[q].type = elements[p].type
               /\ \A r \in (p + 1)..(q - 1) : elements[r].type = "li"

\* C10 as stated: when markdownToHTML processes a heading, a paragraph or a blank line
\* while a list is open, it appends the close of that list, then the node of
\* the line (none for a blank line), and leaves the stack empty; so '- a',
\* '- b', a blank line and ' c' with a no-break space after it give <ul>, a,
\* b, </ul>, <p>c</p>.
C10_CloseBeforeNode ==
    /\ [][ ( /\ hpc = "parsing"
             /\ idx' = idx + 1
             /\ listStack # <<>>
             /\ LineKind(mdLines[idx + 1]) \in {"h", "p", "blank"} )
           => ( /\ listStack' = <<>>
                /\ Len(html') > Len(html)
                /\ SubSeq(html', 1, Len(html) + 1) = Append(html, CloseTag(Top(listStack)))
                /\ IF LineKind(mdLines[idx + 1]) = "blank"
                   THEN Len(html') = Len(html) + 1
                   ELSE /\ Len(html') = Len(html) + 2
                        /\ html'[Len(html') ].tag = LineKind(mdLines[idx + 1]) ) ]_vars
    /\ []( ( /\ ReturnedHTML
             /\ mdLines = << <<"-", " ", "a">>, <<"-", " ", "b">>, <<>>, <<" ", "c", "U+00A0">> >> )
           => html = <<OpenTag("ul"), Piece("li", 0, <<"a">>), Piece("li", 0, <<"b">>),
                       CloseTag("ul"), Piece("p", 0, <<"c">>)>> )

(***************************************************************************)
(* Both parsers under one specification: a call of either runs from the    *)
(* split to the return.  forEach visits every line and nothing in either   *)
(* loop waits, so a call that has started keeps taking steps.              *)
(***************************************************************************)
NextParsers == NextHTML \/ NextJSX

\* the bodies of this specification: a blank line, a paragraph, an unordered
\* and an ordered item, and a heading of level MaxLevel
ParserLines == LineSet \ {<<"-", " ", "b">>, <<"#", " ", "T">>}
ParserBodies ==
    {Join(ls, <<"\n">>) : ls \in UNION {[1..k -> ParserLines] : k \in 1..MaxLines}}

InitParsers ==
    /\ markdown \in ParserBodies
    /\ mdLines = <<>>
    /\ idx = 0
    /\ html = <<>>
    /\ elements = <<>>
    /\ listItemIndex = 0
    /\ listStack = <<>>
    /\ hpc = "idle"
    /\ MdxIdle

SpecParsers == InitParsers /\ [][NextParsers]_vars /\ WF_vars(NextParsers)

Parsing == hpc \in {"parsing", "parsingJSX"}
Returned_ == hpc \in {"returned", "returnedJSX"}

\* the lines of the body that are not blank, and the nodes of an output that
\* are not list tags
NonBlank == SelectSeq(mdLines, LAMBDA l : LineKind(l) # "blank")
HtmlNodes == SelectSeq(html, LAMBDA p : ~IsOpen(p) /\ ~IsClose(p))
JsxNodes == SelectSeq(elements, LAMBDA e : e.type \notin {"ul", "ol"})

\* C11: a parse of either kind takes the lines of the body one at a time in
\* input order, each once, and then returns; it reaches no other outcome; the
\* output has one node per line that is not blank, in line order; and a line
\* that is no heading, list item or blank line yields a paragraph of its text.
C11_Terminates ==
    /\ <>Returned_
    /\ [](hpc \in {"idle", "parsing", "parsingJSX", "returned", "returnedJSX"})
    /\ [](Parsing => (mdLines = Split(markdown, <<"\n">>) /\ idx \in 0..Len(mdLines)))
    /\ [][ Parsing => \/ idx < Len(mdLines) /\ idx' = idx + 1 /\ hpc' = hpc
                      \/ idx = Len(mdLines) /\ idx' = idx /\ Returned_' ]_vars
    /\ [][ (Parsing /\ idx < Len(mdLines) /\ LineKind(mdLines[idx + 1]) = "p")
              => IF hpc = "parsing"
                 THEN /\ Len(html') > Len(html)
                      /\ html'[Len(html')] = Piece("p", 0, Trim(mdLines[idx + 1]))
                 ELSE /\ Len(elements') > Len(elements)
                      /\ elements'[Len(elements')].type = "p"
                      /\ elements'[Len(elements')].children = Trim(mdLines[idx + 1]) ]_vars
    /\ [](ReturnedHTML =>
            /\ Len(HtmlNodes) = Len(NonBlank)
            /\ \A k \in 1..Len(NonBlank) :
                  HtmlNodes[k].tag = (IF LineKind(NonBlank[k]) \in {"ul", "ol"}
                                      THEN "li" ELSE LineKind(NonBlank[k])))
    /\ [](ReturnedJSX => Len(JsxNodes) = Len(NonBlank))

\* a body of three lines or more with a paragraph among them was parsed to
\* its end by markdownToJSX
C11_Witness ==
    /\ ReturnedJSX
    /\ Len(mdLines) >= 3
    /\ idx = Len(mdLines)
    /\ \E k \in 1..Len(mdLines) : LineKind(mdLines[k]) = "p"
    /\ \E e \in 1..Len(elements) : elements[e].type = "p"

\* the heading level a component of markdownToJSX stands for, 0 for the others
JsxLevel(type) ==
    CASE type = "h1" -> 1 [] type = "h2" -> 2 [] type = "h3" -> 3 [] OTHER -> 0

\* C12: when either parser processes a line whose trimmed form starts with a
\* run of n >= 1 '#', it emits exactly one node, a heading of level n whose
\* text is the trimmed line without the run and the character after it: <hn>
\* in the markup, the heading component of level n in the component tree
\* (after the element of a list that closes).
C12_HeadingLevel ==
    [][ ( /\ Parsing
          /\ idx' = idx + 1
          /\ HeaderMatch(Trim(mdLines[idx + 1])) >= 1 )
        => LET t == Trim(mdLines[idx + 1])
               n == HeaderMatch(t)
           IN  IF hpc = "parsing"
               THEN html' = html \o <<Piece("h", n, Slice(t, n + 1))>>
               ELSE /\ Len(elements') = Len(closeListsJSX(listStack, elements)) + 1
                    /\ JsxLevel(elements'[Len(elements')].type) = n
                    /\ elements'[Len(elements')].children = Slice(t, n + 1) ]_vars

\* the three failures of a document: the split, the schema, the undeclared keys
SplitFails == Done /\ Len(Occurrences(content, 1)) # 2
FrontMatterCase ==
    /\ Done
    /\ Len(lines) = 3
    /\ ConfigSchemaAccepts(config)
    /\ route = T_blog
    /\ yamlParsed.ok
SchemaFails == FrontMatterCase /\ (Parsed.k # "map" \/ ~PassesSchema)
UnexpectedFails == MappingCase /\ PassesSchema /\ MappingKeys \ DeclaredNames # {}

\* C13 as stated: a document that fails the split, the schema or the
\* unexpected-field check makes getMDXData return a result that carries the
\* kind of the error, not the outcome that carries nothing.
C13_TypedErrorResult ==
    (SplitFails \/ SchemaFails \/ UnexpectedFails) => result.returned \notin {"undefined", "data"}

\* C13 amended: such a document makes getMDXData return undefined; the error
\* goes to logError, once, and not to the caller: a ConfigError for the split,
\* the ZodError whose issues name the failing fields for the schema, the
\* UnexpectedFieldError with the undeclared keys for the unexpected-field check.
C13_ErrorLoggedOnly ==
    /\ SplitFails =>
          /\ result = Undefined
          /\ errLog = <<Logged(Err("ConfigError", "Invalid config format.", <<>>, <<>>),
                               "parsing metadata for route")>>
    /\ SchemaFails =>
          /\ result = Undefined
          /\ Len(errLog) = 1
          /\ errLog[1].context = "reading MDX configuration for route"
          /\ errLog[1].error.name = "ZodError"
          /\ errLog[1].error.issues # <<>>
          /\ Parsed.k = "map" =>
                {errLog[1].error.issues[j].field : j \in 1..Len(errLog[1].error.issues)}
                    = FailingFields
    /\ UnexpectedFails =>
          /\ result = Undefined
          /\ Len(errLog) = 1
          /\ errLog[1].context = "reading MDX configuration for route"
          /\ errLog[1].error.name = "UnexpectedFieldError"
          /\ Range(errLog[1].error.unexpectedFields) = MappingKeys \ DeclaredNames

\* a mapping failed the schema on two fields: undefined was returned and the
\* ZodError logged
C13_Witness ==
    /\ SchemaFails
    /\ Parsed.k = "map"
    /\ Cardinality(FailingFields) = 2
    /\ result = Undefined
    /\ errLog[1].error.name = "ZodError"

(***************************************************************************)
(* markdownToHTML as a function of the body: the forEach over the lines    *)
(* from line i on, with the html so far and the stack (html += the piece   *)
(* parseLine returns; what parseLine appended itself is overwritten), and  *)
(* then the final closeLists().                                            *)
(***************************************************************************)
RECURSIVE ForEachLineHTML(_, _, _, _)
ForEachLineHTML(ls, i, out, stack) ==
    IF i > Len(ls) THEN out \o closeLists(stack)
    ELSE ForEachLineHTML(ls, i + 1,
                         out \o parseLine(ls[i], stack).returned,
                         parseLine(ls[i], stack).stack)

markdownToHTML(text) == ForEachLineHTML(Split(text, <<"\n">>), 1, <<>>, <<>>)

\* the node a piece of the markup stands for
NodeOfPiece(p) ==
    CASE p.tag = "<ul>" -> [kind |-> "open", list |-> "ul", level |-> 0, text |-> <<>>]
      [] p.tag = "<ol>" -> [kind |-> "open", list |-> "ol", level |-> 0, text |-> <<>>]
      [] p.tag = "</ul>" -> [kind |-> "close", list |-> "ul", level |-> 0, text |-> <<>>]
      [] p.tag = "</ol>" -> [kind |-> "close", list |-> "ol", level |-> 0, text |-> <<>>]
      [] p.tag = "li" -> [kind |-> "item", list |-> "", level |-> 0, text |-> p.text]
      [] p.tag = "h" -> [kind |-> "heading", list |-> "", level |-> p.level, text |-> p.text]
      [] OTHER -> [kind |-> "paragraph", list |-> "", level |-> 0, text |-> p.text]

\* the node an element of the component tree stands for; the ul and ol
\* elements are the ones closeLists pushes
NodeOfElement(e) ==
    CASE e.type \in {"ul", "ol"} -> [kind |-> "close", list |-> e.type, level |-> 0, text |-> <<>>]
      [] e.type = "li" -> [kind |-> "item", list |-> "", level |-> 0, text |-> e.children]
      [] e.type \in {"h1", "h2", "h3"} ->
            [kind |-> "heading", list |-> "", level |-> JsxLevel(e.type), text |-> e.children]
      [] OTHER -> [kind |-> "paragraph", list |-> "", level |-> 0, text |-> e.children]

\* C14: the elements markdownToJSX returns for a body and the markup
\* markdownToHTML returns for the same body are the same sequence of nodes:
\* equal in kind (heading with its level, list open, list item, list close,
\* paragraph), in order and in text.
C14_SameNodeSequence ==
    ReturnedJSX =>
        LET markup == markdownToHTML(markdown)
        IN  [i \in 1..Len(elements) |-> NodeOfElement(elements[i])]
              = [i \in 1..Len(markup) |-> NodeOfPiece(markup[i])]

\* C15: in every state of a parse of either kind listStack holds at most one
\* entry; a list line of a kind other than the top of the stack empties the
\* stack and pushes its own kind (markdownToJSX pushes the element of each
\* list it pops), and a list line of the kind on top of the stack leaves the
\* stack as it is.
C15_OneOpenList ==
    /\ [](Len(listStack) <= 1)
    /\ [][ ( /\ Parsing
             /\ idx' = idx + 1
             /\ LineKind(mdLines[idx + 1]) \in {"ul", "ol"} )
           => LET kind == LineKind(mdLines[idx + 1])
              IN  /\ listStack' = <<kind>>
                  /\ Top(listStack) = kind => listStack' = listStack
                  /\ hpc = "parsingJSX" =>
                        IF Top(listStack) = kind
                        THEN Len(elements') = Len(elements) + 1
                        ELSE /\ Len(elements') = Len(elements) + Len(listStack) + 1
                             /\ \A i \in 1..Len(listStack) :
                                   elements'[Len(elements) + i].type = listStack[i] ]_vars

\* an ordered item followed an unordered one: the stack holds the one entry
\* "ol"
C15_Witness ==
    /\ hpc = "parsing"
    /\ idx >= 2
    /\ LineKind(mdLines[idx - 1]) = "ul"
    /\ LineKind(mdLines[idx]) = "ol"
    /\ listStack = <<"ol">>
    /\ Len(html) >= 2

\* C16: a list that is open during a parse of either kind (its kind is on
\* listStack) is closed later; when the parse returns, listStack is empty;
\* and if the last line of the body is a list item the last piece of the
\* output is the close of that item's kind (in the component tree, the ul or
\* ol element that closeLists pushes).
C16_ListsClosedAtEnd ==
    /\ (listStack # <<>>) ~> (listStack = <<>>)
    /\ [](Returned_ => listStack = <<>>)
    /\ []((ReturnedHTML /\ LineKind(mdLines[Len(mdLines)]) \in {"ul", "ol"}) =>
            /\ html # <<>>
            /\ html[Len(html)] = CloseTag(LineKind(mdLines[Len(mdLines)])))
    /\ []((ReturnedJSX /\ LineKind(mdLines[Len(mdLines)]) \in {"ul", "ol"}) =>
            /\ elements # <<>>
            /\ elements[Len(elements)].type = LineKind(mdLines[Len(mdLines)]))

\* a body that ends with an ordered item after an unordered one was parsed to
\* the end: the markup ends with </ol>
C16_Witness ==
    /\ ReturnedHTML
    /\ Len(mdLines) >= 2
    /\ LineKind(mdLines[Len(mdLines) - 1]) = "ul"
    /\ LineKind(mdLines[Len(mdLines)]) = "ol"
    /\ html[Len(html)] = CloseTag("ol")
    /\ listStack = <<>>

\* a step of markdownToHTML that processes a paragraph line
ParagraphStep ==
    /\ hpc = "parsing"
    /\ idx' = idx + 1
    /\ LineKind(mdLines[idx + 1]) = "p"

\* C17 as stated: the text of the paragraph emitted for a paragraph line is
\* the line itself, character for character, with its leading and trailing
\* whitespace.
C17_ParagraphVerbatim ==
    [][ ParagraphStep =>
          /\ Len(html') > Len(html)
          /\ html'[Len(html')] = Piece("p", 0, mdLines[idx + 1]) ]_vars

\* C17 amended: the text of the paragraph is the line without its leading and
\* trailing whitespace, and character for character the line between them:
\* the line is whitespace, then the text, then whitespace, and the text begins
\* and ends with a character that is not whitespace.
C17_ParagraphTrimmed ==
    [][ ParagraphStep =>
          /\ Len(html') > Len(html)
          /\ html'[Len(html')].tag = "p"
          /\ LET line == mdLines[idx + 1]
                 text == html'[Len(html')].text
             IN  /\ text # <<>>
                 /\ text[1] \notin WhiteSpace
                 /\ text[Len(text)] \notin WhiteSpace
                 /\ \E a \in 0..Len(line) :
                       /\ a + Len(text) <= Len(line)
                       /\ SubSeq(line, a + 1, a + Len(text)) = text
                       /\ \A i \in 1..a : line[i] \in WhiteSpace
                       /\ \A i \in (a + Len(text) + 1)..Len(line) : line[i] \in WhiteSpace ]_vars

\* the line ' c' with a no-break space after it was processed: the paragraph
\* holds 'c'
C17_Witness ==
    /\ hpc = "parsing"
    /\ idx >= 1
    /\ mdLines[idx] = <<" ", "c", "U+00A0">>
    /\ html # <<>>
    /\ html[Len(html)] = Piece("p", 0, <<"c">>)

\* the list items of the returned elements and the list lines of the body
ListItems == SelectSeq(elements, LAMBDA e : e.type = "li")
ListLines == SelectSeq(mdLines, LAMBDA l : LineKind(l) \in {"ul", "ol"})
ItemText(l) ==
    IF LineKind(l) = "ul" THEN Slice(Trim(l), 2) ELSE Slice(Trim(l), IndexOfDot(Trim(l)) + 2)

\* C18: in the elements markdownToJSX returns, the list items are those of
\* the list lines of the body, in order, and the k-th of them (from 0) has
\* the key list-item-k whatever lines that are not list lines stand before
\* it; the counter has advanced once per list item; and the keys of the
\* elements are pairwise distinct.
C18_ListItemKeys ==
    ReturnedJSX =>
        /\ Len(ListItems) = Len(ListLines)
        /\ listItemIndex = Len(ListItems)
        /\ \A k \in 1..Len(ListItems) :
              /\ ListItems[k].key = Key("list-item", k - 1)
              /\ ListItems[k].children = ItemText(ListLines[k])
        /\ \A i, j \in 1..Len(elements) : i # j => elements[i].key # elements[j].key

\* two list items with a paragraph before them and a blank line between them
\* came back with the keys list-item-0 and list-item-1
C18_Witness ==
    /\ ReturnedJSX
    /\ Len(mdLines) = 4
    /\ LineKind(mdLines[1]) = "p"
    /\ LineKind(mdLines[2]) = "ul"
    /\ LineKind(mdLines[3]) = "blank"
    /\ LineKind(mdLines[4]) = "ol"
    /\ Len(ListItems) = 2
    /\ ListItems[2].key = Key("list-item", 1)

\* the calls of a getMDXData that returns data, in the order it makes them
AllSteps ==
    <<"split", "getMetadata", "loadConfig", "createDynamicSchema", "YAML.parse",
      "dynamicSchema.parse", "unexpectedFields">>
LookupFails ==
    /\ Done
    /\ Len(lines) = 3
    /\ ~ConfigSchemaAccepts(config) \/ \A i \in 1..Len(config.routes.v) : config.routes.v[i].name # Str(route)
LoggedNames == {errLog[i].error.name : i \in 1..Len(errLog)}

\* C19: getMDXData makes its checks in the order segment count, configuration
\* and route lookup, schema validation, unexpected keys, and stops at the
\* first that fails: its calls are a prefix of that order; a wrong segment
\* count is reported as the format error and nothing else is called; a failed
\* lookup is reported before the front-matter is parsed; a mapping that fails
\* the schema is reported as the ZodError alone, undeclared keys or not; and
\* the unexpected keys are computed only after the schema has passed.
C19_CheckOrder ==
    Done =>
        /\ steps = SubSeq(AllSteps, 1, Len(steps))
        /\ SplitFails =>
              /\ steps = <<"split">>
              /\ LoggedNames = {"ConfigError"}
        /\ LookupFails =>
              /\ steps = SubSeq(AllSteps, 1, 3)
              /\ LoggedNames \cap {"ConfigError", "YAMLParseError", "UnexpectedFieldError"} = {}
              /\ LastError.name = "Error"
        /\ SchemaFails =>
              /\ steps = SubSeq(AllSteps, 1, 6)
              /\ LoggedNames = {"ZodError"}
        /\ Len(steps) = 7 <=> (MappingCase /\ PassesSchema)
        /\ Len(steps) = 7 =>
              IF MappingKeys \subseteq DeclaredNames
              THEN errLog = <<>> /\ result.returned = "data"
              ELSE LoggedNames = {"UnexpectedFieldError"} /\ result = Undefined
        /\ result = Undefined <=> errLog # <<>>

\* a mapping with an undeclared key failed the schema: the call stopped at the
\* schema and the ZodError is the only error reported
C19_Witness ==
    /\ SchemaFails
    /\ Parsed.k = "map"
    /\ MappingKeys \ DeclaredNames # {}
    /\ steps[Len(steps)] = "dynamicSchema.parse"
    /\ LoggedNames = {"ZodError"}

====
